---- MODULE Spec2Model ----
(***************************************************************************)
(* A model of the rlox tree-walking interpreter: the resolver              *)
(* (rlox/src/resolver.rs), the environment chain (rlox/src/environment.rs),*)
(* the value model (rlox/src/value.rs), the callables                      *)
(* (rlox/src/callable.rs) and the interpreter (rlox/src/interpreter.rs),   *)
(* together with the binary-operator evaluation of the first interpreter   *)
(* version (src/interpreter.rs).                                           *)
(*                                                                         *)
(* Reference-counted cells (Rc<RefCell<..>>) are modelled as heaps: a      *)
(* sequence of cells addressed by position, so that two handles are the    *)
(* same cell exactly when they hold the same position.                     *)
(***************************************************************************)
EXTENDS Integers, Sequences, FiniteSets, TLC

VARIABLES
    program,      \* the program being run
    phase,        \* "resolve", "interpret", "done", "static_error", "runtime_error", "panic"
    idx,          \* the position of the next top-level statement
    resolver,     \* the Resolver
    interpreter,  \* the Interpreter and its heaps
    error,        \* the error the run ended with, if any
    lox_rs,       \* the run of the earlier version (crate lox_rs) on an expression
    lox           \* what Lox::run has produced: tokens, parse results, errors written

vars == <<program, phase, idx, resolver, interpreter, error, lox_rs, lox>>

(***************************************************************************)
(* Bounds of the model.                                                    *)
(***************************************************************************)
\* deepest block nesting of a variable use in the scope programs
MaxNest == 2
\* most calls made to one counter closure
MaxCalls == 2
\* number of loop iterations and calls one run may make
MaxFuel == 40

(***************************************************************************)
(* HashMap<K, V>                                                           *)
(***************************************************************************)
EmptyMap == [n \in {} |-> 0]

\* HashMap::insert
Put(map, k, v) == [n \in (DOMAIN map) \cup {k} |-> IF n = k THEN v ELSE map[n]]

(***************************************************************************)
(* Tokens and the syntax tree.  Token and every node derive Eq and Hash,   *)
(* so two nodes are equal exactly when all their fields are.               *)
(***************************************************************************)
Token(kind, lexeme, line) == [kind |-> kind, lexeme |-> lexeme, line |-> line]

Ident(name, line) == Token("Identifier", name, line)

\* value::Literal
LitNil == [t |-> "Nil"]
LitBool(b) == [t |-> "Bool", b |-> b]
LitNumber(n) == [t |-> "Number", n |-> n]
LitString(s) == [t |-> "String", s |-> s]

new_assign(name, value) == [k |-> "Assign", name |-> name, value |-> value]
new_binary(left, op, right) == [k |-> "Binary", left |-> left, op |-> op, right |-> right]
new_call(callee, paren, arguments) == [k |-> "Call", callee |-> callee, paren |-> paren, arguments |-> arguments]
new_get(object, name) == [k |-> "Get", object |-> object, name |-> name]
new_grouping(expression) == [k |-> "Grouping", expression |-> expression]
new_literal(value) == [k |-> "Literal", value |-> value]
new_logical(left, op, right) == [k |-> "Logical", left |-> left, op |-> op, right |-> right]
new_set(object, name, value) == [k |-> "Set", object |-> object, name |-> name, value |-> value]
new_unary(op, right) == [k |-> "Unary", op |-> op, right |-> right]
new_variable(name) == [k |-> "Variable", name |-> name]
new_this(keyword) == [k |-> "This", keyword |-> keyword]
new_super(keyword, method) == [k |-> "Super", keyword |-> keyword, method |-> method]

\* Option<T>: None, or Some(v)
None == [some |-> FALSE]
Some(v) == [some |-> TRUE, v |-> v]

new_block(statements) == [k |-> "Block", statements |-> statements]
new_class(name, superclass, methods) == [k |-> "Class", name |-> name, superclass |-> superclass, methods |-> methods]
new_expression(expression) == [k |-> "Expression", expression |-> expression]
new_function(name, params, body) == [k |-> "Function", name |-> name, params |-> params, body |-> body]
new_if(condition, then_branch, else_branch) == [k |-> "If", condition |-> condition, then_branch |-> then_branch, else_branch |-> else_branch]
new_print(expression) == [k |-> "Print", expression |-> expression]
new_return(keyword, value) == [k |-> "Return", keyword |-> keyword, value |-> value]
new_var(name, initializer) == [k |-> "Var", name |-> name, initializer |-> initializer]
new_while(condition, body) == [k |-> "While", condition |-> condition, body |-> body]

(***************************************************************************)
(* value::Value                                                            *)
(***************************************************************************)
Nil == [t |-> "Nil"]
Bool(b) == [t |-> "Bool", b |-> b]
Number(n) == [t |-> "Number", n |-> n]
String(s) == [t |-> "String", s |-> s]
NativeFn == [t |-> "NativeFn"]
\* a class or an instance value is a pointer to its cell
Class(ptr) == [t |-> "Class", ptr |-> ptr]
Instance(ptr) == [t |-> "Instance", ptr |-> ptr]
\* Function::new; closure is the position of the captured environment
Function(declaration, closure, is_init) == [t |-> "Function", declaration |-> declaration, closure |-> closure, is_init |-> is_init]

\* impl From<Literal> for Value
FromLiteral(l) ==
    CASE l.t = "Bool" -> Bool(l.b)
      [] l.t = "Nil" -> Nil
      [] l.t = "Number" -> Number(l.n)
      [] l.t = "String" -> String(l.s)

is_truthy(v) ==
    CASE v.t = "Bool" -> v.b
      [] v.t = "Nil" -> FALSE
      [] OTHER -> TRUE

is_equal(a, b) ==
    CASE a.t = "Nil" /\ b.t = "Nil" -> TRUE
      [] a.t = "Bool" /\ b.t = "Bool" -> a.b = b.b
      [] a.t = "Number" /\ b.t = "Number" -> a.n = b.n
      [] a.t = "String" /\ b.t = "String" -> a.s = b.s
      [] OTHER -> FALSE

(***************************************************************************)
(* environment::Environment.  envs is the heap of environments; position 0 *)
(* stands for "no enclosing environment".                                  *)
(***************************************************************************)
Environment_new == [enclosing |-> 0, values |-> EmptyMap]

Environment_from(e) == [enclosing |-> e, values |-> EmptyMap]

Environment_define(env, name, value) == [env EXCEPT !.values = Put(@, name, value)]

undefined_var_error(name) == "Undefined variable: " \o name.lexeme

RECURSIVE Environment_get(_, _, _)
Environment_get(envs, e, name) ==
    IF name.lexeme \in DOMAIN envs[e].values
    THEN [ok |-> TRUE, value |-> envs[e].values[name.lexeme], message |-> ""]
    ELSE IF envs[e].enclosing # 0
         THEN Environment_get(envs, envs[e].enclosing, name)
         ELSE [ok |-> FALSE, value |-> Nil, message |-> undefined_var_error(name)]

\* the frame `distance` links out from e, or 0 at the unreachable!() branch
RECURSIVE with_ancestor_at(_, _, _)
with_ancestor_at(envs, e, distance) ==
    IF distance = 0 THEN e
    ELSE IF envs[e].enclosing # 0
         THEN with_ancestor_at(envs, envs[e].enclosing, distance - 1)
         ELSE 0

get_at(envs, e, distance, name) ==
    LET a == with_ancestor_at(envs, e, distance) IN
    IF a = 0
    THEN [status |-> "impossible", value |-> Nil, frame |-> 0,
          message |-> "Impossible scope. This is a static analysis bug."]
    ELSE IF name.lexeme \in DOMAIN envs[a].values
         THEN [status |-> "ok", value |-> envs[a].values[name.lexeme], frame |-> a, message |-> ""]
         ELSE [status |-> "undefined", value |-> Nil, frame |-> a,
               message |-> undefined_var_error(name)]

assign_at(envs, e, distance, name, value) ==
    LET a == with_ancestor_at(envs, e, distance) IN
    IF a = 0
    THEN [status |-> "impossible", envs |-> envs, frame |-> 0,
          message |-> "Impossible scope. This is a static analysis bug."]
    ELSE IF name.lexeme \in DOMAIN envs[a].values
         THEN [status |-> "ok", envs |-> [envs EXCEPT ![a].values[name.lexeme] = value],
               frame |-> a, message |-> ""]
         ELSE [status |-> "undefined", envs |-> envs, frame |-> a,
               message |-> undefined_var_error(name)]

\* Environment::maybe_get_at, used by Function::this_value
maybe_get_at(envs, e, distance, name) ==
    LET a == with_ancestor_at(envs, e, distance) IN
    IF a # 0 /\ name \in DOMAIN envs[a].values
    THEN Some(envs[a].values[name])
    ELSE None

\* a variant of assign that creates the binding in the outermost frame when
\* the chain is exhausted
RECURSIVE Environment_assign_or_define(_, _, _, _)
Environment_assign_or_define(envs, e, name, value) ==
    IF name.lexeme \in DOMAIN envs[e].values
    THEN [ok |-> TRUE, envs |-> [envs EXCEPT ![e].values[name.lexeme] = value], message |-> ""]
    ELSE IF envs[e].enclosing # 0
         THEN Environment_assign_or_define(envs, envs[e].enclosing, name, value)
         ELSE [ok |-> TRUE, envs |-> [envs EXCEPT ![e] = Environment_define(@, name.lexeme, value)],
               message |-> ""]

RECURSIVE Environment_assign(_, _, _, _)
Environment_assign(envs, e, name, value) ==
    IF name.lexeme \in DOMAIN envs[e].values
    THEN [ok |-> TRUE, envs |-> [envs EXCEPT ![e].values[name.lexeme] = value], message |-> ""]
    ELSE IF envs[e].enclosing # 0
         THEN Environment_assign(envs, envs[e].enclosing, name, value)
         ELSE [ok |-> FALSE, envs |-> envs, message |-> undefined_var_error(name)]

(***************************************************************************)
(* resolver::Resolver.  r.locals is the table of the interpreter the       *)
(* resolver holds (Resolver.interpreter.locals); r.err is the error a `?`  *)
(* has returned; r.occ records, for each call of resolve_local that found  *)
(* the name, the occurrence and the depth computed for it.                 *)
(***************************************************************************)
Resolver_new(locals) ==
    [scopes |-> <<EmptyMap>>, current_function |-> "None", current_class |-> "None",
     locals |-> locals, err |-> None, occ |-> <<>>]

static_analyzer(r, message) == [r EXCEPT !.err = Some(message)]

begin_scope(r) == [r EXCEPT !.scopes = Append(@, EmptyMap)]

end_scope(r) ==
    IF Len(r.scopes) = 0 THEN r
    ELSE [r EXCEPT !.scopes = SubSeq(@, 1, Len(@) - 1)]

\* a variant of declare that looks for the name in every frame
declare_in_any_frame(r, n) ==
    IF Len(r.scopes) = 0 THEN r
    ELSE IF \E i \in 1..Len(r.scopes) : n.lexeme \in DOMAIN r.scopes[i]
         THEN static_analyzer(r, "A variable with this name already exists in this scope.")
         ELSE [r EXCEPT !.scopes[Len(r.scopes)] = Put(@, n.lexeme, "Declared")]

declare(r, n) ==
    IF Len(r.scopes) = 0 THEN r
    ELSE IF n.lexeme \in DOMAIN r.scopes[Len(r.scopes)]
         THEN static_analyzer(r, "A variable with this name already exists in this scope.")
         ELSE [r EXCEPT !.scopes[Len(r.scopes)] = Put(@, n.lexeme, "Declared")]

Resolver_define(r, n) ==
    IF Len(r.scopes) = 0 THEN r
    ELSE IF n.lexeme \in DOMAIN r.scopes[Len(r.scopes)]
         THEN [r EXCEPT !.scopes[Len(r.scopes)][n.lexeme] = "Defined"]
         ELSE r

\* Interpreter::resolve: locals.insert(e.clone(), depth)
Interpreter_resolve(locals, e, depth) == Put(locals, e, depth)

\* scopes.iter().rev().enumerate().find(contains_key): the index, counted
\* from the innermost frame, of the first frame that holds the name
resolve_local(r, e, n) ==
    LET holding == {i \in 1..Len(r.scopes) : n.lexeme \in DOMAIN r.scopes[i]} IN
    IF holding = {} THEN r
    ELSE LET top == CHOOSE i \in holding : \A j \in holding : j <= i
             depth == Len(r.scopes) - top
         IN [r EXCEPT !.locals = Interpreter_resolve(@, e, depth),
                      !.occ = Append(@, [expr |-> e, depth |-> depth])]

RECURSIVE resolve_stmts(_, _), resolve_stmt(_, _), resolve_expr(_, _)
RECURSIVE resolve_exprs(_, _), resolve_function(_, _, _), resolve_methods(_, _)
RECURSIVE declare_params(_, _)

resolve_stmts(r, s) ==
    IF Len(s) = 0 THEN r
    ELSE LET rest(r1) == IF r1.err.some THEN r1 ELSE resolve_stmts(r1, Tail(s))
         IN rest(resolve_stmt(r, Head(s)))

\* for argument in &e.arguments { self.resolve_expr(&argument)?; }
resolve_exprs(r, es) ==
    IF Len(es) = 0 THEN r
    ELSE LET rest(r1) == IF r1.err.some THEN r1 ELSE resolve_exprs(r1, Tail(es))
         IN rest(resolve_expr(r, Head(es)))

\* for param in f.params.iter() { self.declare(&param)?; self.define(&param); }
declare_params(r, params) ==
    IF Len(params) = 0 THEN r
    ELSE LET rest(r1) == IF r1.err.some THEN r1
                         ELSE declare_params(Resolver_define(r1, Head(params)), Tail(params))
         IN rest(declare(r, Head(params)))

resolve_function(r, f, t) ==
    LET enclosing_function == r.current_function
        body(r2) == IF r2.err.some THEN r2 ELSE resolve_stmts(r2, f.body)
        finish(r3) == IF r3.err.some THEN r3
                      ELSE [end_scope(r3) EXCEPT !.current_function = enclosing_function]
    IN finish(body(declare_params(begin_scope([r EXCEPT !.current_function = t]), f.params)))

\* for method in c.methods.iter() { ... self.resolve_function(&method, declaration)?; }
resolve_methods(r, methods) ==
    IF Len(methods) = 0 THEN r
    ELSE LET method == Head(methods)
             declaration == IF method.name.lexeme = "init" THEN "Init" ELSE "Method"
             rest(r1) == IF r1.err.some THEN r1 ELSE resolve_methods(r1, Tail(methods))
         IN rest(resolve_function(r, method, declaration))

Resolver_visit_block_stmt(r, b) ==
    LET finish(r1) == IF r1.err.some THEN r1 ELSE end_scope(r1)
    IN finish(resolve_stmts(begin_scope(r), b.statements))

Resolver_visit_class_stmt(r, c) ==
    LET enclosing_class == r.current_class
        self_inherit == /\ c.superclass.some
                        /\ c.superclass.v.k = "Variable"
                        /\ c.name.lexeme = c.superclass.v.name.lexeme
        \* self.begin_scope(); self.scopes.last_mut().map(|s| s.insert(name, Defined))
        scope(r0, name) ==
            LET b == begin_scope(r0) IN
            [b EXCEPT !.scopes[Len(b.scopes)] = Put(@, name, "Defined")]
        finish(r6) ==
            IF r6.err.some THEN r6
            ELSE [(IF c.superclass.some THEN end_scope(end_scope(r6)) ELSE end_scope(r6))
                     EXCEPT !.current_class = enclosing_class]
        methods(r3) ==
            IF r3.err.some THEN r3
            ELSE finish(resolve_methods(
                     scope(IF c.superclass.some THEN scope(r3, "super") ELSE r3, "this"),
                     c.methods))
        superclass(r2) ==
            IF self_inherit THEN static_analyzer(r2, "A class may not inheret from itself.")
            ELSE methods(IF c.superclass.some THEN resolve_expr(r2, c.superclass.v) ELSE r2)
        declared(r1) == IF r1.err.some THEN r1 ELSE superclass(Resolver_define(r1, c.name))
    IN declared(declare([r EXCEPT !.current_class = "Class"], c.name))

Resolver_visit_expression_stmt(r, e) == resolve_expr(r, e.expression)

Resolver_visit_function_stmt(r, f) ==
    LET declared(r1) == IF r1.err.some THEN r1
                        ELSE resolve_function(Resolver_define(r1, f.name), f, "Function")
    IN declared(declare(r, f.name))

Resolver_visit_if_stmt(r, i) ==
    LET else_branch(r2) ==
            IF r2.err.some THEN r2
            ELSE IF i.else_branch.some THEN resolve_stmt(r2, i.else_branch.v)
            ELSE r2
        then_branch(r1) ==
            IF r1.err.some THEN r1 ELSE else_branch(resolve_stmt(r1, i.then_branch))
    IN then_branch(resolve_expr(r, i.condition))

Resolver_visit_print_stmt(r, p) == resolve_expr(r, p.expression)

Resolver_visit_return_stmt(r, ret) ==
    IF r.current_function = "None"
    THEN static_analyzer(r, "Can't return from top-level code.")
    ELSE IF r.current_function = "Init" /\ ret.value.some
    THEN static_analyzer(r, "Cannot return a value from an initialiser.")
    ELSE IF ret.value.some THEN resolve_expr(r, ret.value.v)
    ELSE r

Resolver_visit_var_stmt(r, v) ==
    LET finish(r2) == IF r2.err.some THEN r2 ELSE Resolver_define(r2, v.name)
        initializer(r1) ==
            finish(IF r1.err.some \/ ~v.initializer.some THEN r1
                   ELSE resolve_expr(r1, v.initializer.v))
    IN initializer(declare(r, v.name))

Resolver_visit_while_stmt(r, w) ==
    LET body(r1) == IF r1.err.some THEN r1 ELSE resolve_stmt(r1, w.body)
    IN body(resolve_expr(r, w.condition))

resolve_stmt(r, s) ==
    CASE s.k = "Block" -> Resolver_visit_block_stmt(r, s)
      [] s.k = "Class" -> Resolver_visit_class_stmt(r, s)
      [] s.k = "Expression" -> Resolver_visit_expression_stmt(r, s)
      [] s.k = "Function" -> Resolver_visit_function_stmt(r, s)
      [] s.k = "If" -> Resolver_visit_if_stmt(r, s)
      [] s.k = "Print" -> Resolver_visit_print_stmt(r, s)
      [] s.k = "Return" -> Resolver_visit_return_stmt(r, s)
      [] s.k = "Var" -> Resolver_visit_var_stmt(r, s)
      [] s.k = "While" -> Resolver_visit_while_stmt(r, s)

Resolver_visit_assign_expr(r, a) ==
    LET local(r1) == IF r1.err.some THEN r1 ELSE resolve_local(r1, a, a.name)
    IN local(resolve_expr(r, a.value))

Resolver_visit_binary_expr(r, e) ==
    LET right(r1) == IF r1.err.some THEN r1 ELSE resolve_expr(r1, e.right)
    IN right(resolve_expr(r, e.left))

Resolver_visit_call_expr(r, e) ==
    LET arguments(r1) == IF r1.err.some THEN r1 ELSE resolve_exprs(r1, e.arguments)
    IN arguments(resolve_expr(r, e.callee))

Resolver_visit_get_expr(r, g) == resolve_expr(r, g.object)

Resolver_visit_grouping_expr(r, e) == resolve_expr(r, e.expression)

Resolver_visit_literal_expr(r, e) == r

Resolver_visit_logical_expr(r, e) ==
    LET right(r1) == IF r1.err.some THEN r1 ELSE resolve_expr(r1, e.right)
    IN right(resolve_expr(r, e.left))

Resolver_visit_set_expr(r, e) ==
    LET object(r1) == IF r1.err.some THEN r1 ELSE resolve_expr(r1, e.object)
    IN object(resolve_expr(r, e.value))

Resolver_visit_super_expr(r, e) == resolve_local(r, e, e.keyword)

Resolver_visit_this_expr(r, e) ==
    IF r.current_class = "None"
    THEN static_analyzer(r, "Can't use 'this' outside of a class.")
    ELSE resolve_local(r, e, e.keyword)

Resolver_visit_unary_expr(r, e) == resolve_expr(r, e.right)

\* a variant of visit_variable_expr that never looks at the state of the entry
Resolver_visit_variable_expr_unchecked(r, e) == resolve_local(r, e, e.name)

Resolver_visit_variable_expr(r, e) ==
    IF /\ Len(r.scopes) > 0
       /\ e.name.lexeme \in DOMAIN r.scopes[Len(r.scopes)]
       /\ r.scopes[Len(r.scopes)][e.name.lexeme] = "Declared"
    THEN static_analyzer(r, "Can't read local variable in its own initializer.")
    ELSE resolve_local(r, e, e.name)

resolve_expr(r, e) ==
    CASE e.k = "Assign" -> Resolver_visit_assign_expr(r, e)
      [] e.k = "Binary" -> Resolver_visit_binary_expr(r, e)
      [] e.k = "Call" -> Resolver_visit_call_expr(r, e)
      [] e.k = "Get" -> Resolver_visit_get_expr(r, e)
      [] e.k = "Grouping" -> Resolver_visit_grouping_expr(r, e)
      [] e.k = "Literal" -> Resolver_visit_literal_expr(r, e)
      [] e.k = "Logical" -> Resolver_visit_logical_expr(r, e)
      [] e.k = "Set" -> Resolver_visit_set_expr(r, e)
      [] e.k = "Super" -> Resolver_visit_super_expr(r, e)
      [] e.k = "This" -> Resolver_visit_this_expr(r, e)
      [] e.k = "Unary" -> Resolver_visit_unary_expr(r, e)
      [] e.k = "Variable" -> Resolver_visit_variable_expr(r, e)

(***************************************************************************)
(* interpreter::Interpreter.  A machine record m holds the fields of the   *)
(* interpreter (globals, locals, environment, writer) and the heaps its    *)
(* reference-counted cells live in (envs, classes, instances).  m.fuel     *)
(* bounds the calls and loop iterations of a run, m.depth counts the       *)
(* active Function::call frames and m.log records what the run did.        *)
(*                                                                         *)
(* Every visitor returns [m, thrown, value]: thrown is the Err(Thrown) of  *)
(* interpreter::Result, or NoThrow for Ok; a panic (unreachable!()) is a   *)
(* thrown of kind "Panic", which nothing catches.                          *)
(***************************************************************************)
NoThrow == [kind |-> "None"]
ThrownError(message) == [kind |-> "Error", message |-> message]
ThrownReturn(value) == [kind |-> "Return", value |-> value]
Panic(message) == [kind |-> "Panic", message |-> message]
OutOfFuel == [kind |-> "Fuel"]

Ok(m, v) == [m |-> m, thrown |-> NoThrow, value |-> v]
Err(m, t) == [m |-> m, thrown |-> t, value |-> Nil]

Log(m, event) == [m EXCEPT !.log = Append(@, event)]

\* what a run can write to: the heaps, the current environment, the sink
Cells(m) == [envs |-> m.envs, classes |-> m.classes, instances |-> m.instances,
             environment |-> m.environment, writer |-> m.writer]

\* Rc::new(RefCell::new(environment)): the new cell is the last of the heap
AllocEnv(m, environment) == [m EXCEPT !.envs = Append(@, environment)]

\* the reading of the system clock returned by the native function
Now == 1000

\* the positions of the two environments Interpreter::new creates: globals,
\* and the environment the top-level statements run in, which encloses it
Globals == 1
TopLevel == 2

Interpreter_new ==
    [globals |-> Globals,
     locals |-> EmptyMap,
     environment |-> TopLevel,
     writer |-> <<>>,
     envs |-> <<Environment_define(Environment_new, "clock", NativeFn),
                Environment_from(Globals)>>,
     classes |-> <<>>,
     instances |-> <<>>,
     fuel |-> MaxFuel,
     depth |-> 0,
     log |-> <<>>,
     blocks |-> <<>>]

\* impl Display for Value
Display(m, v) ==
    CASE v.t = "Bool" -> IF v.b THEN "true" ELSE "false"
      [] v.t = "Class" -> m.classes[v.ptr].name \o " instance"
      [] v.t = "Function" -> "<fn " \o v.declaration.name.lexeme \o ">"
      [] v.t = "Instance" -> m.classes[m.instances[v.ptr].class].name \o " instance" \o " instance"
      [] v.t = "NativeFn" -> "<native fn>"
      [] v.t = "Nil" -> "nil"
      [] v.t = "Number" -> IF "over" \in DOMAIN v THEN "NaN" ELSE ToString(v.n)
      [] v.t = "String" -> v.s

lookup_variable(m, name, e) ==
    IF e \in DOMAIN m.locals
    THEN LET distance == m.locals[e]
             g == get_at(m.envs, m.environment, distance, name)
             m1 == Log(m, [ev |-> "get_at", expr |-> e, distance |-> distance,
                           from |-> m.environment, status |-> g.status, frame |-> g.frame])
         IN CASE g.status = "ok" -> Ok(m1, g.value)
              [] g.status = "undefined" -> Err(m1, ThrownError(g.message))
              [] g.status = "impossible" -> Err(m1, Panic(g.message))
    ELSE LET g == Environment_get(m.envs, m.globals, name)
             m1 == Log(m, [ev |-> "get_global", name |-> name.lexeme, ok |-> g.ok,
                           value |-> g.value, top |-> m.envs[TopLevel].values])
         IN IF g.ok THEN Ok(m1, g.value) ELSE Err(m1, ThrownError(g.message))

(***************************************************************************)
(* Numbers are modelled by the integers.  A quotient that is not an        *)
(* integer, and a division by zero, yield a Number that carries the field  *)
(* `over` and takes no further part in arithmetic.                         *)
(***************************************************************************)
Abs(n) == IF n < 0 THEN 0 - n ELSE n

NotInteger == [t |-> "Number", n |-> 0, over |-> 0]

Arith(kind, l, r) ==
    CASE kind = "Minus" -> Number(l - r)
      [] kind = "Plus" -> Number(l + r)
      [] kind = "Star" -> Number(l * r)
      [] kind = "Slash" ->
            IF r # 0 /\ \E q \in (0 - Abs(l))..Abs(l) : q * r = l
            THEN Number(CHOOSE q \in (0 - Abs(l))..Abs(l) : q * r = l)
            ELSE NotInteger
      [] kind = "Greater" -> Bool(l > r)
      [] kind = "GreaterEqual" -> Bool(l >= r)
      [] kind = "Less" -> Bool(l < r)
      [] kind = "LessEqual" -> Bool(l <= r)

IsNumber(v) == v.t = "Number"

\* a check that looks at the left operand only
compute_if_numbers_left_only(kind, left, right) ==
    IF IsNumber(left)
    THEN [ok |-> TRUE,
          value |-> IF ~IsNumber(right) \/ "over" \in DOMAIN left \/ "over" \in DOMAIN right
                    THEN NotInteger ELSE Arith(kind, left.n, right.n),
          message |-> ""]
    ELSE [ok |-> FALSE, value |-> Nil, message |-> "Operands must be numbers."]

compute_if_numbers(kind, left, right) ==
    IF IsNumber(left) /\ IsNumber(right)
    THEN [ok |-> TRUE,
          value |-> IF "over" \in DOMAIN left \/ "over" \in DOMAIN right
                    THEN NotInteger ELSE Arith(kind, left.n, right.n),
          message |-> ""]
    ELSE [ok |-> FALSE, value |-> Nil, message |-> "Operands must be numbers."]

\* the match of visit_binary_expr on the operator kind
binary_op(kind, left, right) ==
    CASE kind = "Plus" ->
            IF IsNumber(left) /\ IsNumber(right)
            THEN compute_if_numbers(kind, left, right)
            ELSE IF left.t = "String" /\ right.t = "String"
            THEN [ok |-> TRUE, value |-> String(left.s \o right.s), message |-> ""]
            ELSE [ok |-> FALSE, value |-> Nil,
                  message |-> "Operands must be two numbers or two strings."]
      [] kind \in {"Minus", "Slash", "Star", "Greater", "GreaterEqual", "Less",
          "LessEqual"} ->
            compute_if_numbers(kind, left, right)
      [] kind = "EqualEqual" -> [ok |-> TRUE, value |-> Bool(is_equal(left, right)), message |-> ""]
      [] kind = "BangEqual" -> [ok |-> TRUE, value |-> Bool(~is_equal(left, right)), message |-> ""]

(***************************************************************************)
(* value.rs: classes, instances and bound methods                          *)
(***************************************************************************)
\* ClassPointer::get_field
ClassPointer_get_field(m, c, name) ==
    IF name \in DOMAIN m.classes[c].fields THEN Some(m.classes[c].fields[name]) ELSE None

\* ClassPointer::instantiate; the new instance is the last cell of the heap
instantiate(m, c) == [m EXCEPT !.instances = Append(@, [class |-> c, fields |-> EmptyMap])]

\* Function::binding: the bound function, and the heap with its environment
binding(m, f, i) ==
    LET env == Environment_define(Environment_from(f.closure), "this", Instance(i))
        m1 == AllocEnv(m, env)
    IN [m |-> m1, function |-> Function(f.declaration, Len(m1.envs), f.is_init)]

\* InstancePointer::get
InstancePointer_get(m, i, name) ==
    LET instance == m.instances[i] IN
    IF name.lexeme \in DOMAIN instance.fields
    THEN Ok(m, instance.fields[name.lexeme])
    ELSE LET field == ClassPointer_get_field(m, instance.class, name.lexeme) IN
         IF field.some /\ field.v.t = "Function"
         THEN LET b == binding(m, field.v, i) IN Ok(b.m, b.function)
         ELSE IF field.some THEN Ok(m, field.v)
         ELSE Err(m, ThrownError("Undefined property " \o name.lexeme \o "."))

\* a set that writes the field on every instance of the heap
InstancePointer_set_every(m, i, name, value) ==
    [m EXCEPT !.instances = [j \in DOMAIN @ |->
                                [@[j] EXCEPT !.fields = Put(@, name.lexeme, value)]]]

\* InstancePointer::set
InstancePointer_set(m, i, name, value) ==
    [m EXCEPT !.instances[i].fields = Put(@, name.lexeme, value)]

(***************************************************************************)
(* callable.rs                                                             *)
(***************************************************************************)
\* Value::callable
callable(v) == v.t \in {"Class", "Function", "NativeFn"}

\* Callable::arity for NativeFn, Function and ClassPointer
arity(m, c) ==
    CASE c.t = "NativeFn" -> 0
      [] c.t = "Function" -> Len(c.declaration.params)
      [] c.t = "Class" ->
            LET init == ClassPointer_get_field(m, c.ptr, "init") IN
            IF init.some /\ init.v.t = "Function" THEN Len(init.v.declaration.params) ELSE 0

\* Function::this_value
this_value(m, f) ==
    LET o == maybe_get_at(m.envs, f.closure, 0, "this") IN
    IF o.some THEN Ok(m, o.v) ELSE Err(m, ThrownError("Unexpected end of input."))

\* for (param, arg) in params.iter().zip(args) { environment.define(..) }
RECURSIVE define_params(_, _, _)
define_params(environment, params, args) ==
    IF Len(params) = 0 \/ Len(args) = 0 THEN environment
    ELSE define_params(Environment_define(environment, Head(params).lexeme, Head(args)),
                       Tail(params), Tail(args))

\* a call result that treats an initializer like any other function
call_result_plain(f, r) ==
    CASE r.thrown.kind = "None" -> Ok(r.m, Nil)
      [] r.thrown.kind = "Return" -> Ok(r.m, r.thrown.value)
      [] OTHER -> Err(r.m, r.thrown)

\* the match of Function::call on the outcome r of execute_block
call_result(f, r) ==
    CASE r.thrown.kind = "None" /\ f.is_init -> this_value(r.m, f)
      [] r.thrown.kind = "None" /\ ~f.is_init -> Ok(r.m, Nil)
      [] r.thrown.kind = "Return" /\ f.is_init -> this_value(r.m, f)
      [] r.thrown.kind = "Return" /\ ~f.is_init -> Ok(r.m, r.thrown.value)
      [] OTHER -> Err(r.m, r.thrown)

\* a call frame built over a copy of the closure instead of the closure
call_environment_by_value(m, f, args) ==
    LET copy == AllocEnv(m, m.envs[f.closure]) IN
    [m |-> copy,
     environment |-> define_params(Environment_from(Len(copy.envs)), f.declaration.params, args)]

\* the environment of a call: a new frame whose enclosing frame is the
\* closure itself (Environment::from(&self.closure)), holding the arguments
call_environment(m, f, args) ==
    [m |-> m,
     environment |-> define_params(Environment_from(f.closure), f.declaration.params, args)]

\* an arity check that lets surplus arguments through
check_arity_at_least(m, c, args) ==
    IF Len(args) >= arity(m, c)
    THEN [ok |-> TRUE, message |-> ""]
    ELSE [ok |-> FALSE,
          message |-> "Expected " \o ToString(arity(m, c))
                      \o " arguments but got " \o ToString(Len(args))]

\* if args.len() == c.arity() { Ok(c) } else { Err(..) } of visit_call_expr
check_arity(m, c, args) ==
    IF Len(args) = arity(m, c)
    THEN [ok |-> TRUE, message |-> ""]
    ELSE [ok |-> FALSE,
          message |-> "Expected " \o ToString(arity(m, c))
                      \o " arguments but got " \o ToString(Len(args))]

RECURSIVE evaluate(_, _), execute(_, _), execute_block(_, _, _)
RECURSIVE execute_statements(_, _), evaluate_arguments(_, _)
RECURSIVE Function_call(_, _, _), ClassPointer_call(_, _, _), call(_, _, _)
RECURSIVE while_loop(_, _)

Function_call(m, f, args) ==
    IF m.fuel = 0 THEN Err(m, OutOfFuel)
    ELSE LET logged(r, res) ==
                 [res EXCEPT !.m = [Log(@, [ev |-> "call_end", depth |-> m.depth + 1,
                                            is_init |-> f.is_init, closure |-> f.closure,
                                            outcome |-> r.thrown, thrown |-> res.thrown,
                                            value |-> res.value])
                                       EXCEPT !.depth = m.depth]]
             result(r) == logged(r, call_result(f, r))
             body(ce) == result(execute_block([ce.m EXCEPT !.fuel = @ - 1, !.depth = @ + 1],
                                              f.declaration.body, ce.environment))
         IN body(call_environment(m, f, args))

NativeFn_call(m, f, args) == Ok(m, Number(Now))

ClassPointer_call(m, c, args) ==
    LET init == ClassPointer_get_field(m, c, "init")
        runs == init.some /\ init.v.t = "Function"
        created(r, instance) ==
            IF r.thrown.kind # "None" THEN r ELSE Ok(r.m, Instance(instance))
        bound(b, instance) == created(Function_call(b.m, b.function, args), instance)
        initialize(m2, instance) ==
            IF runs THEN bound(binding(m2, init.v, instance), instance)
            ELSE Ok(m2, Instance(instance))
        instantiated(m1) ==
            initialize(Log(m1, [ev |-> "class_call", class |-> c,
                                instance |-> Len(m1.instances),
                                fields |-> m1.instances[Len(m1.instances)].fields,
                                init |-> runs, args |-> args]),
                       Len(m1.instances))
    IN instantiated(instantiate(m, c))

call(m, c, args) ==
    CASE c.t = "Class" -> ClassPointer_call(m, c.ptr, args)
      [] c.t = "Function" -> Function_call(m, c, args)
      [] c.t = "NativeFn" -> NativeFn_call(m, c, args)

(***************************************************************************)
(* impl expr::Visitor<Result<Value>> for Interpreter                       *)
(***************************************************************************)
\* e.arguments.iter().map(|a| self.evaluate(a)).collect::<Result<_>>()?
evaluate_arguments(m, es) ==
    IF Len(es) = 0 THEN Ok(m, <<>>)
    ELSE LET collect(a, rest) ==
                 IF rest.thrown.kind # "None" THEN rest
                 ELSE Ok(rest.m, <<a.value>> \o rest.value)
             first(a) ==
                 IF a.thrown.kind # "None" THEN a
                 ELSE collect(a, evaluate_arguments(a.m, Tail(es)))
         IN first(evaluate(m, Head(es)))

visit_assign_expr(m, a) ==
    LET local(v, distance, w) ==
            LET m1 == Log([v.m EXCEPT !.envs = w.envs],
                          [ev |-> "assign_at", expr |-> a, distance |-> distance,
                           from |-> v.m.environment, status |-> w.status,
                           frame |-> w.frame])
            IN CASE w.status = "ok" -> Ok(m1, v.value)
                 [] w.status = "undefined" -> Err(m1, ThrownError(w.message))
                 [] w.status = "impossible" -> Err(m1, Panic(w.message))
        global(v, w) ==
            IF w.ok THEN Ok([v.m EXCEPT !.envs = w.envs], v.value)
            ELSE Err(v.m, ThrownError(w.message))
        assign(v) ==
            IF v.thrown.kind # "None" THEN v
            ELSE IF a \in DOMAIN v.m.locals
            THEN local(v, v.m.locals[a],
                       assign_at(v.m.envs, v.m.environment, v.m.locals[a], a.name, v.value))
            ELSE global(v, Environment_assign(v.m.envs, v.m.globals, a.name, v.value))
    IN assign(evaluate(m, a.value))

visit_binary_expr(m, e) ==
    LET logged(left, right, res) ==
            [res EXCEPT !.m = Log(@, [ev |-> "binary", kind |-> e.op.kind,
                                      left |-> left.value, right |-> right.value,
                                      thrown |-> res.thrown, value |-> res.value])]
        result(left, right, b) ==
            logged(left, right, IF b.ok THEN Ok(right.m, b.value)
                                ELSE Err(right.m, ThrownError(b.message)))
        second(left, right) ==
            IF right.thrown.kind # "None" THEN right
            ELSE result(left, right, binary_op(e.op.kind, left.value, right.value))
        first(left) ==
            IF left.thrown.kind # "None" THEN left
            ELSE second(left, evaluate(left.m, e.right))
    IN first(evaluate(m, e.left))

visit_call_expr(m, e) ==
    LET logged(c, args, res) ==
            [res EXCEPT !.m = Log(@, [ev |-> "call_expr", callee |-> c,
                                      args |-> args.value,
                                      arity |-> IF callable(c) THEN arity(args.m, c) ELSE 0,
                                      before |-> Cells(args.m), after |-> Cells(res.m),
                                      thrown |-> res.thrown, value |-> res.value])]
        called(c, args) ==
            logged(c, args,
                   IF ~callable(c)
                   THEN Err(args.m, ThrownError("Can only call functions and classes."))
                   ELSE IF check_arity(args.m, c, args.value).ok
                   THEN call(args.m, c, args.value)
                   ELSE Err(args.m, ThrownError(check_arity(args.m, c, args.value).message)))
        arguments(callee, args) ==
            IF args.thrown.kind # "None" THEN args ELSE called(callee.value, args)
        first(callee) ==
            IF callee.thrown.kind # "None" THEN callee
            ELSE arguments(callee, evaluate_arguments(callee.m, e.arguments))
    IN first(evaluate(m, e.callee))

visit_get_expr(m, g) ==
    LET logged(object, r) ==
            [r EXCEPT !.m = Log(@, [ev |-> "get", instance |-> object.value.ptr,
                                    name |-> g.name.lexeme,
                                    fields |-> object.m.instances[object.value.ptr].fields,
                                    thrown |-> r.thrown, value |-> r.value])]
        get(object) ==
            IF object.thrown.kind # "None" THEN object
            ELSE IF object.value.t = "Instance"
            THEN logged(object, InstancePointer_get(object.m, object.value.ptr, g.name))
            ELSE Err(object.m, ThrownError("Only instances have properties."))
    IN get(evaluate(m, g.object))

visit_grouping_expr(m, e) == evaluate(m, e.expression)

visit_literal_expr(m, e) == Ok(m, FromLiteral(e.value))

visit_logical_expr(m, e) ==
    LET right(left) ==
            IF left.thrown.kind # "None" THEN left
            ELSE IF (e.op.kind = "Or" /\ is_truthy(left.value))
                    \/ (e.op.kind = "And" /\ ~is_truthy(left.value))
            THEN left
            ELSE evaluate(left.m, e.right)
    IN right(evaluate(m, e.left))

visit_set_expr(m, e) ==
    LET set(object, value) ==
            IF value.thrown.kind # "None" THEN value
            ELSE Ok(Log(InstancePointer_set(value.m, object.value.ptr, e.name, value.value),
                        [ev |-> "set", instance |-> object.value.ptr,
                         name |-> e.name.lexeme, value |-> value.value]),
                    value.value)
        target(object) ==
            IF object.thrown.kind # "None" THEN object
            ELSE IF object.value.t = "Instance"
            THEN set(object, evaluate(object.m, e.value))
            ELSE Err(object.m, ThrownError("Only instances have properties."))
    IN target(evaluate(m, e.object))

visit_this_expr(m, e) == lookup_variable(m, e.keyword, e)

visit_unary_expr(m, e) ==
    LET apply(right) ==
            IF right.thrown.kind # "None" THEN right
            ELSE CASE e.op.kind = "Minus" /\ IsNumber(right.value) ->
                         Ok(right.m, IF "over" \in DOMAIN right.value THEN NotInteger
                                     ELSE Number(0 - right.value.n))
                   [] e.op.kind = "Minus" /\ ~IsNumber(right.value) ->
                         Err(right.m, ThrownError("Operand must be a number."))
                   [] e.op.kind = "Bang" -> Ok(right.m, Bool(~is_truthy(right.value)))
    IN apply(evaluate(m, e.right))

visit_variable_expr(m, e) == lookup_variable(m, e.name, e)

evaluate(m, e) ==
    CASE e.k = "Assign" -> visit_assign_expr(m, e)
      [] e.k = "Binary" -> visit_binary_expr(m, e)
      [] e.k = "Call" -> visit_call_expr(m, e)
      [] e.k = "Get" -> visit_get_expr(m, e)
      [] e.k = "Grouping" -> visit_grouping_expr(m, e)
      [] e.k = "Literal" -> visit_literal_expr(m, e)
      [] e.k = "Logical" -> visit_logical_expr(m, e)
      [] e.k = "Set" -> visit_set_expr(m, e)
      [] e.k = "This" -> visit_this_expr(m, e)
      [] e.k = "Unary" -> visit_unary_expr(m, e)
      [] e.k = "Variable" -> visit_variable_expr(m, e)

(***************************************************************************)
(* impl stmt::Visitor<Result<()>> for Interpreter                          *)
(***************************************************************************)
\* for statement in statements { self.execute(statement)?-like early exit }
execute_statements(m, statements) ==
    IF Len(statements) = 0 THEN Ok(m, Nil)
    ELSE LET rest(r) == IF r.thrown.kind # "None" THEN r
                        ELSE execute_statements(r.m, Tail(statements))
         IN rest(execute(m, Head(statements)))

\* an execute_block that resets the environment only after the last
\* statement, and not before returning an error
execute_block_resetting_at_the_end(m, statements, environment) ==
    LET old_env == m.environment
        returned(r) ==
            [r EXCEPT !.m.blocks = Append(@, [old_env |-> old_env,
                                              environment |-> r.m.environment,
                                              thrown |-> r.thrown.kind,
                                              depth |-> r.m.depth])]
        restore(r) == IF r.thrown.kind \in {"Panic", "Fuel"} THEN r
                      ELSE IF r.thrown.kind = "None"
                      THEN returned([r EXCEPT !.m.environment = old_env])
                      ELSE returned(r)
        enter(m1) ==
            restore(execute_statements([m1 EXCEPT !.environment = Len(m1.envs)], statements))
    IN enter(AllocEnv(m, environment))

\* blocks records every return of execute_block: the environment it was
\* entered in and the one that is current when it returns
execute_block(m, statements, environment) ==
    LET old_env == m.environment
        returned(r) ==
            [r EXCEPT !.m.blocks = Append(@, [old_env |-> old_env,
                                              environment |-> r.m.environment,
                                              thrown |-> r.thrown.kind,
                                              depth |-> r.m.depth])]
        restore(r) == IF r.thrown.kind \in {"Panic", "Fuel"} THEN r
                      ELSE returned([r EXCEPT !.m.environment = old_env])
        enter(m1) ==
            restore(execute_statements([m1 EXCEPT !.environment = Len(m1.envs)], statements))
    IN enter(AllocEnv(m, environment))

visit_block_stmt(m, b) ==
    execute_block(m, b.statements, Environment_from(m.environment))

\* the loop of visit_class_stmt that builds the method table
RECURSIVE class_methods(_, _, _)
class_methods(methods, closure, table) ==
    IF Len(methods) = 0 THEN table
    ELSE LET method == Head(methods)
             function == Function(method, closure, method.name.lexeme = "init")
         IN class_methods(Tail(methods), closure, Put(table, method.name.lexeme, function))

visit_class_stmt(m, c) ==
    LET define(sup) ==
            LET m1 == sup.m
                env == m1.environment
                m2 == [m1 EXCEPT !.envs[env] = Environment_define(@, c.name.lexeme, Nil)]
                methods == class_methods(c.methods, env, EmptyMap)
                class == [name |-> c.name.lexeme,
                          superclass |-> IF c.superclass.some THEN sup.value.ptr ELSE 0,
                          fields |-> methods]
                m3 == [m2 EXCEPT !.classes = Append(@, class)]
                w == Environment_assign(m3.envs, env, c.name, Class(Len(m3.classes)))
            IN IF w.ok THEN Ok([m3 EXCEPT !.envs = w.envs], Nil)
               ELSE Err(m3, ThrownError(w.message))
        superclass(sup) ==
            IF sup.thrown.kind # "None" THEN sup
            ELSE IF c.superclass.some /\ sup.value.t # "Class"
            THEN Err(sup.m, ThrownError("Superclass must be a class."))
            ELSE define(sup)
    IN superclass(IF c.superclass.some THEN evaluate(m, c.superclass.v) ELSE Ok(m, Nil))

visit_expression_stmt(m, e) ==
    LET discard(r) == IF r.thrown.kind # "None" THEN r ELSE Ok(r.m, Nil)
    IN discard(evaluate(m, e.expression))

visit_function_stmt(m, f) ==
    LET function == Function(f, m.environment, FALSE) IN
    Ok([m EXCEPT !.envs[m.environment] = Environment_define(@, f.name.lexeme, function)], Nil)

visit_if_stmt(m, i) ==
    LET branch(c) ==
            IF c.thrown.kind # "None" THEN c
            ELSE IF is_truthy(c.value) THEN execute(c.m, i.then_branch)
            ELSE IF i.else_branch.some THEN execute(c.m, i.else_branch.v)
            ELSE Ok(c.m, Nil)
    IN branch(evaluate(m, i.condition))

visit_print_stmt(m, p) ==
    LET write(v) ==
            IF v.thrown.kind # "None" THEN v
            ELSE Ok([v.m EXCEPT !.writer = Append(@, Display(v.m, v.value))], Nil)
    IN write(evaluate(m, p.expression))

\* a return statement that does not unwind
visit_return_stmt_no_unwind(m, r) ==
    LET throw(to_return) ==
            IF to_return.thrown.kind # "None" THEN to_return
            ELSE Ok(Log(to_return.m, [ev |-> "return", depth |-> to_return.m.depth,
                                      value |-> to_return.value]),
                    Nil)
    IN throw(IF r.value.some THEN evaluate(m, r.value.v) ELSE Ok(m, Nil))

visit_return_stmt(m, r) ==
    LET throw(to_return) ==
            IF to_return.thrown.kind # "None" THEN to_return
            ELSE Err(Log(to_return.m, [ev |-> "return", depth |-> to_return.m.depth,
                                       value |-> to_return.value]),
                     ThrownReturn(to_return.value))
    IN throw(IF r.value.some THEN evaluate(m, r.value.v) ELSE Ok(m, Nil))

visit_var_stmt(m, v) ==
    LET define(value) ==
            IF value.thrown.kind # "None" THEN value
            ELSE Ok([value.m EXCEPT !.envs[value.m.environment] =
                                        Environment_define(@, v.name.lexeme, value.value)],
                    Nil)
    IN define(IF v.initializer.some THEN evaluate(m, v.initializer.v) ELSE Ok(m, Nil))

\* while self.evaluate(&w.condition)?.is_truthy() { self.execute(&w.body)?; }
while_loop(m, w) ==
    LET again(b) == IF b.thrown.kind # "None" THEN b ELSE while_loop(b.m, w)
        body(c) ==
            IF c.thrown.kind # "None" THEN c
            ELSE IF ~is_truthy(c.value) THEN Ok(c.m, Nil)
            ELSE IF c.m.fuel = 0 THEN Err(c.m, OutOfFuel)
            ELSE again(execute([c.m EXCEPT !.fuel = @ - 1], w.body))
    IN body(evaluate(m, w.condition))

visit_while_stmt(m, w) == while_loop(m, w)

execute(m, s) ==
    LET m1 == Log(m, [ev |-> "execute", k |-> s.k, depth |-> m.depth]) IN
    CASE s.k = "Block" -> visit_block_stmt(m1, s)
      [] s.k = "Class" -> visit_class_stmt(m1, s)
      [] s.k = "Expression" -> visit_expression_stmt(m1, s)
      [] s.k = "Function" -> visit_function_stmt(m1, s)
      [] s.k = "If" -> visit_if_stmt(m1, s)
      [] s.k = "Print" -> visit_print_stmt(m1, s)
      [] s.k = "Return" -> visit_return_stmt(m1, s)
      [] s.k = "Var" -> visit_var_stmt(m1, s)
      [] s.k = "While" -> visit_while_stmt(m1, s)

\* Interpreter::interpret: the statements in order, up to the first that
\* throws; a Return that reaches it is the unreachable!() panic
interpret(m, statements) ==
    LET returned(r) ==
            IF r.thrown.kind = "Return"
            THEN Err(r.m, Panic("return should never make it this far up the stack."))
            ELSE r
    IN returned(execute_statements(m, statements))

(***************************************************************************)
(* The earlier version of the interpreter (crate lox_rs, src/src): it      *)
(* evaluates one expression over LoxLiteral values and writes the result.  *)
(***************************************************************************)
\* impl Display for LoxLiteral
lox_rs_Display(v) ==
    CASE v.t = "Bool" -> IF v.b THEN "true" ELSE "false"
      [] v.t = "Nil" -> "nil"
      [] v.t = "Number" -> IF "over" \in DOMAIN v THEN "NaN" ELSE ToString(v.n)
      [] v.t = "String" -> v.s

lox_rs_is_equal(a, b) ==
    CASE a.t = "Nil" /\ b.t = "Nil" -> TRUE
      [] a.t = "Bool" /\ b.t = "Bool" -> a.b = b.b
      [] a.t = "Number" /\ b.t = "Number" -> a = b
      [] a.t = "String" /\ b.t = "String" -> a.s = b.s
      [] OTHER -> FALSE

lox_rs_is_truthy(v) ==
    CASE v.t = "Bool" -> v.b
      [] v.t = "Nil" -> FALSE
      [] OTHER -> TRUE

lox_rs_compute_if_numbers(kind, left, right) ==
    IF left.t = "Number" /\ right.t = "Number"
    THEN [ok |-> TRUE,
          value |-> IF "over" \in DOMAIN left \/ "over" \in DOMAIN right
                    THEN NotInteger ELSE Arith(kind, left.n, right.n),
          message |-> ""]
    ELSE [ok |-> FALSE, value |-> LitNil, message |-> "Operands must be numbers."]

RECURSIVE lox_rs_evaluate(_)

lox_rs_visit_binary_expr(e) ==
    LET left == lox_rs_evaluate(e.left) IN
    IF ~left.ok THEN left
    ELSE LET right == lox_rs_evaluate(e.right)
             kind == e.op.kind
         IN IF ~right.ok THEN right
            ELSE CASE kind = "Plus" ->
                        IF left.value.t = "Number" /\ right.value.t = "Number"
                        THEN lox_rs_compute_if_numbers(kind, left.value, right.value)
                        ELSE IF left.value.t = "String" /\ right.value.t = "String"
                        THEN [ok |-> TRUE, value |-> LitString(left.value.s \o right.value.s),
                              message |-> ""]
                        ELSE [ok |-> FALSE, value |-> LitNil,
                              message |-> "Operands must be two numbers or two strings."]
                   [] kind \in {"Minus", "Slash", "Star", "Greater", "GreaterEqual",
                                "Less", "LessEqual"} ->
                        lox_rs_compute_if_numbers(kind, left.value, right.value)
                   [] kind = "EqualEqual" ->
                        [ok |-> TRUE, value |-> LitBool(lox_rs_is_equal(left.value, right.value)),
                         message |-> ""]
                   [] kind = "BangEqual" ->
                        [ok |-> TRUE, value |-> LitBool(~lox_rs_is_equal(left.value, right.value)),
                         message |-> ""]

lox_rs_visit_grouping_expr(e) == lox_rs_evaluate(e.expression)

lox_rs_visit_literal_expr(e) == [ok |-> TRUE, value |-> e.value, message |-> ""]

lox_rs_visit_unary_expr(e) ==
    LET right == lox_rs_evaluate(e.right) IN
    IF ~right.ok THEN right
    ELSE CASE e.op.kind = "Minus" /\ right.value.t = "Number" ->
                 [ok |-> TRUE,
                  value |-> IF "over" \in DOMAIN right.value THEN NotInteger
                            ELSE LitNumber(0 - right.value.n),
                  message |-> ""]
           [] e.op.kind = "Minus" /\ right.value.t # "Number" ->
                 [ok |-> FALSE, value |-> LitNil, message |-> "Operand must be a number."]
           [] e.op.kind = "Bang" ->
                 [ok |-> TRUE, value |-> LitBool(~lox_rs_is_truthy(right.value)), message |-> ""]

\* e.accept(self)
lox_rs_evaluate(e) ==
    CASE e.k = "Binary" -> lox_rs_visit_binary_expr(e)
      [] e.k = "Grouping" -> lox_rs_visit_grouping_expr(e)
      [] e.k = "Literal" -> lox_rs_visit_literal_expr(e)
      [] e.k = "Unary" -> lox_rs_visit_unary_expr(e)

\* Interpreter::interpret(w, e) of the earlier version
lox_rs_interpret(run) ==
    LET r == lox_rs_evaluate(run.expr) IN
    IF r.ok
    THEN [run EXCEPT !.state = "done", !.writer = Append(@, lox_rs_Display(r.value))]
    ELSE [run EXCEPT !.state = "runtime_error", !.error = Some(r.message)]

(***************************************************************************)
(* scanner::Scanner.  A source text is the sequence of its characters; sc  *)
(* is the scanner: src (the characters Chars has yet to yield),            *)
(* lexeme_buffer and line.                                                 *)
(***************************************************************************)
KEYWORDS ==
    [w \in {"and", "class", "else", "false", "for", "fun", "if", "nil", "or", "print",
            "return", "super", "this", "true", "var", "while"} |->
        CASE w = "and" -> "And" [] w = "class" -> "Class" [] w = "else" -> "Else"
          [] w = "false" -> "False" [] w = "for" -> "For" [] w = "fun" -> "Fun"
          [] w = "if" -> "If" [] w = "nil" -> "Nil" [] w = "or" -> "Or"
          [] w = "print" -> "Print" [] w = "return" -> "Return" [] w = "super" -> "Super"
          [] w = "this" -> "This" [] w = "true" -> "True" [] w = "var" -> "Var"
          [] w = "while" -> "While"]

Digits == {"0", "1", "2", "3", "4", "5", "6", "7", "8", "9"}

\* the characters of which char::is_ascii_alphabetic holds
Alphabetic ==
    {"a", "b", "c", "d", "e", "f", "g", "h", "i", "j", "k", "l", "m", "n", "o", "p",
     "q", "r", "s", "t", "u", "v", "w", "x", "y", "z", "A", "B", "C", "D", "E", "F",
     "G", "H", "I", "J", "K", "L", "M", "N", "O", "P", "Q", "R", "S", "T", "U", "V",
     "W", "X", "Y", "Z"}

\* char::is_digit(10)
is_digit(c) == c \in Digits

can_start_identifier(c) == c \in Alphabetic \/ c = "_"

is_part_of_valid_identifier(c) == can_start_identifier(c) \/ is_digit(c)

\* the String the characters make
RECURSIVE Text(_)
Text(chars) == IF Len(chars) = 0 THEN "" ELSE Head(chars) \o Text(Tail(chars))

Scanner_new(src) == [src |-> src, lexeme_buffer |-> <<>>, line |-> 1]

lexical(line, message) == [kind |-> "Lexical", line |-> line, message |-> message]

\* [matched, sc]
does_next_match(sc, c) ==
    IF Len(sc.src) > 0 /\ Head(sc.src) = c
    THEN [matched |-> TRUE,
          sc |-> [sc EXCEPT !.src = Tail(@), !.lexeme_buffer = Append(@, c)]]
    ELSE [matched |-> FALSE, sc |-> sc]

\* advance_until_for_each with the stop test "is in stop" (or, with negate,
\* "is not in stop"); the newlines it passes are added to newlines
RECURSIVE advance_until_for_each(_, _, _, _)
advance_until_for_each(sc, stop, negate, newlines) ==
    IF Len(sc.src) = 0 \/ ((Head(sc.src) \in stop) # negate)
    THEN [sc |-> sc, newlines |-> newlines]
    ELSE advance_until_for_each(
             [sc EXCEPT !.src = Tail(@), !.lexeme_buffer = Append(@, Head(sc.src))],
             stop, negate, newlines + (IF Head(sc.src) = "\n" THEN 1 ELSE 0))

\* str::trim_matches('"')
RECURSIVE trim_matches(_)
trim_matches(chars) ==
    IF Len(chars) > 0 /\ Head(chars) = "\""
    THEN trim_matches(Tail(chars))
    ELSE IF Len(chars) > 0 /\ chars[Len(chars)] = "\""
    THEN trim_matches(SubSeq(chars, 1, Len(chars) - 1))
    ELSE chars

\* [ok, kind, literal, error, sc]: Ok(TokenKind), with the payload of a
\* String or Number kind in literal, or Err(error)
Kind(sc, kind) == [ok |-> TRUE, kind |-> kind, literal |-> 0, error |-> None, sc |-> sc]

extract_string_one_line(sc) ==
    LET advanced(a) ==
            IF Len(a.sc.src) = 0
            THEN [ok |-> FALSE, kind |-> "", literal |-> 0, sc |-> a.sc,
                  error |-> Some(lexical(a.sc.line, "Unterminated string literal."))]
            ELSE LET closed == [a.sc EXCEPT !.src = Tail(@),
                                            !.lexeme_buffer = Append(@, Head(a.sc.src))]
                 IN [ok |-> TRUE, kind |-> "String",
                     literal |-> Text(trim_matches(closed.lexeme_buffer)),
                     error |-> None, sc |-> closed]
    IN advanced(advance_until_for_each(sc, {"\""}, FALSE, 0))

extract_string(sc) ==
    LET advanced(a) ==
            LET counted == [a.sc EXCEPT !.line = @ + a.newlines] IN
            IF Len(counted.src) = 0
            THEN [ok |-> FALSE, kind |-> "", literal |-> 0, sc |-> counted,
                  error |-> Some(lexical(counted.line, "Unterminated string literal."))]
            ELSE LET closed == [counted EXCEPT !.src = Tail(@),
                                               !.lexeme_buffer = Append(@, Head(counted.src))]
                 IN [ok |-> TRUE, kind |-> "String",
                     literal |-> Text(trim_matches(closed.lexeme_buffer)),
                     error |-> None, sc |-> closed]
    IN advanced(advance_until_for_each(sc, {"\""}, FALSE, 0))

\* the value of a sequence of decimal digits
RECURSIVE Decimal(_)
Decimal(chars) ==
    IF Len(chars) = 0 THEN 0
    ELSE 10 * Decimal(SubSeq(chars, 1, Len(chars) - 1))
         + (CHOOSE d \in 0..9 : ToString(d) = chars[Len(chars)])

\* str::parse::<f64> of digits with an optional fraction: the whole number,
\* or the whole part and the digits of a fraction that is not zero
parse_f64(chars) ==
    LET dot == {i \in DOMAIN chars : chars[i] = "."} IN
    IF dot = {} THEN Decimal(chars)
    ELSE LET at == CHOOSE i \in dot : TRUE
             fraction == SubSeq(chars, at + 1, Len(chars))
         IN IF \A i \in DOMAIN fraction : fraction[i] = "0"
            THEN Decimal(SubSeq(chars, 1, at - 1))
            ELSE [whole |-> Decimal(SubSeq(chars, 1, at - 1)), fraction |-> Text(fraction)]

extract_number(sc) ==
    LET number(s2) == [ok |-> TRUE, kind |-> "Number", literal |-> parse_f64(s2.lexeme_buffer),
                       error |-> None, sc |-> s2]
        whole(a) ==
            IF /\ Len(a.sc.src) > 1
               /\ a.sc.src[1] = "."
               /\ is_digit(a.sc.src[2])
            THEN number(advance_until_for_each(
                            [a.sc EXCEPT !.src = Tail(@), !.lexeme_buffer = Append(@, ".")],
                            Digits, TRUE, 0).sc)
            ELSE number(a.sc)
    IN whole(advance_until_for_each(sc, Digits, TRUE, 0))

extract_identifier(sc) ==
    LET word(a) ==
            IF Text(a.sc.lexeme_buffer) \in DOMAIN KEYWORDS
            THEN Kind(a.sc, KEYWORDS[Text(a.sc.lexeme_buffer)])
            ELSE Kind(a.sc, "Identifier")
    IN word(advance_until_for_each(sc, Alphabetic \cup Digits \cup {"_"}, TRUE, 0))

\* one or two characters: kind `two` when the next character is '=', else `one`
OneOrTwo(sc, one, two) ==
    LET matched(m) == Kind(m.sc, IF m.matched THEN two ELSE one)
    IN matched(does_next_match(sc, "="))

\* [result, ok, kind, literal, error, sc]: ScannerResult::Next(Ok | Err),
\* Skip or NoMoreTokens
next_token_kind(sc) ==
    IF Len(sc.src) = 0
    THEN [result |-> "NoMoreTokens", sc |-> sc]
    ELSE LET next_char == Head(sc.src)
             s1 == [sc EXCEPT !.src = Tail(@), !.lexeme_buffer = Append(@, next_char)]
             Next(k) == [result |-> "Next", ok |-> k.ok, kind |-> k.kind,
                         literal |-> k.literal, error |-> k.error, sc |-> k.sc]
             Skip(s2) == [result |-> "Skip", sc |-> s2]
             comment(m) ==
                 IF m.matched THEN Skip(advance_until_for_each(m.sc, {"\n"}, FALSE, 0).sc)
                 ELSE Next(Kind(m.sc, "Slash"))
         IN CASE next_char = "(" -> Next(Kind(s1, "LeftParen"))
              [] next_char = ")" -> Next(Kind(s1, "RightParen"))
              [] next_char = "{" -> Next(Kind(s1, "LeftBrace"))
              [] next_char = "}" -> Next(Kind(s1, "RightBrace"))
              [] next_char = "," -> Next(Kind(s1, "Comma"))
              [] next_char = "." -> Next(Kind(s1, "Dot"))
              [] next_char = "-" -> Next(Kind(s1, "Minus"))
              [] next_char = "+" -> Next(Kind(s1, "Plus"))
              [] next_char = ";" -> Next(Kind(s1, "Semicolon"))
              [] next_char = "*" -> Next(Kind(s1, "Star"))
              [] next_char = "!" -> Next(OneOrTwo(s1, "Bang", "BangEqual"))
              [] next_char = "=" -> Next(OneOrTwo(s1, "Equal", "EqualEqual"))
              [] next_char = "<" -> Next(OneOrTwo(s1, "Less", "LessEqual"))
              [] next_char = ">" -> Next(OneOrTwo(s1, "Greater", "GreaterEqual"))
              [] next_char = "/" -> comment(does_next_match(s1, "/"))
              [] next_char \in {" ", "\r", "\t"} -> Skip(s1)
              [] next_char = "\n" -> Skip([s1 EXCEPT !.line = @ + 1])
              [] next_char = "\"" -> Next(extract_string(s1))
              [] is_digit(next_char) -> Next(extract_number(s1))
              [] can_start_identifier(next_char) -> Next(extract_identifier(s1))
              [] OTHER -> Next([ok |-> FALSE, kind |-> "", literal |-> 0, sc |-> s1,
                                error |-> Some(lexical(s1.line,
                                    "Unexpected character '" \o next_char \o "'"))])

\* a Token: those of kind String or Number carry the payload of the kind
TokenOf(kind, lexeme, line, literal) ==
    IF kind \in {"String", "Number"}
    THEN [kind |-> kind, lexeme |-> lexeme, line |-> line, literal |-> literal]
    ELSE Token(kind, lexeme, line)

RECURSIVE Scanner_next_clearing_on_token(_)
Scanner_next_clearing_on_token(sc) ==
    LET scanned(n) ==
            CASE n.result = "NoMoreTokens" -> [some |-> FALSE, sc |-> n.sc]
              [] n.result = "Skip" -> Scanner_next_clearing_on_token(n.sc)
              [] n.result = "Next" ->
                    [some |-> TRUE, ok |-> n.ok,
                     sc |-> IF n.ok THEN [n.sc EXCEPT !.lexeme_buffer = <<>>] ELSE n.sc,
                     v |-> IF n.ok
                           THEN TokenOf(n.kind, Text(n.sc.lexeme_buffer), n.sc.line, n.literal)
                           ELSE n.error.v]
    IN scanned(next_token_kind(sc))

\* impl Iterator for Scanner: [some, ok, v, sc], v the Token or the Error
RECURSIVE Scanner_next(_)
Scanner_next(sc) ==
    LET scanned(n) ==
            LET cleared == [n.sc EXCEPT !.lexeme_buffer = <<>>] IN
            CASE n.result = "NoMoreTokens" -> [some |-> FALSE, sc |-> cleared]
              [] n.result = "Skip" -> Scanner_next(cleared)
              [] n.result = "Next" ->
                    [some |-> TRUE, ok |-> n.ok, sc |-> cleared,
                     v |-> IF n.ok
                           THEN TokenOf(n.kind, Text(n.sc.lexeme_buffer), n.sc.line, n.literal)
                           ELSE n.error.v]
    IN scanned(next_token_kind(sc))

\* Iterator::collect over the scanner: the results, each [ok, v]
RECURSIVE collect(_, _)
collect(sc, results) ==
    LET yielded(n) ==
            IF ~n.some THEN results
            ELSE collect(n.sc, Append(results, [ok |-> n.ok, v |-> n.v]))
    IN yielded(Scanner_next(sc))

scan_tokens(sc) ==
    LET line == sc.line
    IN Append(collect(sc, <<>>), [ok |-> TRUE, v |-> Token("EndOfFile", "", line)])

(***************************************************************************)
(* The scanner of the earlier version (crate lox_rs, src/src/scanner.rs).  *)
(* Its next_token_kind has the arms of the one above and returns an        *)
(* Option: Some(r) where that one returns Next(r), and None both where it  *)
(* returns Skip and, by `self.src.next()?`, where it returns NoMoreTokens. *)
(***************************************************************************)
\* [some, ok, kind, literal, error, sc]
lox_rs_next_token_kind(sc) ==
    LET optional(n) ==
            IF n.result = "Next"
            THEN [some |-> TRUE, ok |-> n.ok, kind |-> n.kind, literal |-> n.literal,
                  error |-> n.error, sc |-> n.sc]
            ELSE [some |-> FALSE, sc |-> n.sc]
    IN optional(next_token_kind(sc))

\* impl Iterator for Scanner: kind.map(..).or_else(|| self.next()).
\* [returns, some, ok, v, sc]: a call that next_token_kind leaves in the very
\* state it was made in repeats itself without end and never returns
RECURSIVE lox_rs_Scanner_next(_)
lox_rs_Scanner_next(sc) ==
    LET scanned(kind) ==
            LET cleared == [kind.sc EXCEPT !.lexeme_buffer = <<>>] IN
            IF kind.some
            THEN [returns |-> TRUE, some |-> TRUE, ok |-> kind.ok, sc |-> cleared,
                  v |-> IF kind.ok
                        THEN TokenOf(kind.kind, Text(kind.sc.lexeme_buffer),
                                     kind.sc.line, kind.literal)
                        ELSE kind.error.v]
            ELSE IF cleared = sc
            THEN [returns |-> FALSE, sc |-> cleared]
            ELSE lox_rs_Scanner_next(cleared)
    IN scanned(lox_rs_next_token_kind(sc))

\* Iterator::collect over the scanner of the earlier version:
\* [returns, results]
RECURSIVE lox_rs_collect(_, _)
lox_rs_collect(sc, results) ==
    LET yielded(n) ==
            IF ~n.returns THEN [returns |-> FALSE, results |-> results]
            ELSE IF ~n.some THEN [returns |-> TRUE, results |-> results]
            ELSE lox_rs_collect(n.sc, Append(results, [ok |-> n.ok, v |-> n.v]))
    IN yielded(lox_rs_Scanner_next(sc))

\* Scanner::scan_tokens of the earlier version: [returns, results]
lox_rs_scan_tokens(sc) ==
    LET line == sc.line
        collected(c) ==
            IF ~c.returns THEN c
            ELSE [returns |-> TRUE,
                  results |-> Append(c.results,
                                     [ok |-> TRUE, v |-> Token("EndOfFile", "", line)])]
    IN collected(lox_rs_collect(sc, <<>>))

(***************************************************************************)
(* parser::Parser.  p is Parser.tokens, the tokens the iterator has yet to *)
(* yield.  Every parsing method returns [ok, p, v]: the iterator it leaves *)
(* and the Ok value or the Err error.  A Number or String token carries    *)
(* the payload of its kind in the field literal.                           *)
(***************************************************************************)
syntactic(token, message) == [kind |-> "Syntactic", token |-> token, message |-> message]

unexpected == [kind |-> "Unexpected", message |-> "Unexpected end of input."]

Parsed(p, v) == [ok |-> TRUE, p |-> p, v |-> v]
Failed(p, e) == [ok |-> FALSE, p |-> p, v |-> e]

EQUALITY_TOKENS == {"BangEqual", "EqualEqual"}
COMPARISON_TOKENS == {"Greater", "GreaterEqual", "Less", "LessEqual"}
TERM_TOKENS == {"Minus", "Plus"}
FACTOR_TOKENS == {"Star", "Slash"}
UNARY_TOKENS == {"Bang", "Minus"}

check_next(p, kind) == Len(p) > 0 /\ Head(p).kind = kind

\* match_any(kinds).is_some(); the token matched is Head(p) and Tail(p) is left
match_any(p, kinds) == Len(p) > 0 /\ Head(p).kind \in kinds

consume(p, kind, error_msg) ==
    IF check_next(p, kind) THEN Parsed(Tail(p), Head(p))
    ELSE IF Len(p) > 0 THEN Failed(Tail(p), syntactic(Head(p), error_msg))
    ELSE Failed(p, unexpected)

RECURSIVE synchronise_checking_first(_)
synchronise_checking_first(p) ==
    IF Len(p) = 0 THEN p
    ELSE IF Head(p).kind \in {"Class", "Fun", "Var", "For", "If", "While", "Print", "Return"}
    THEN p
    ELSE IF Head(p).kind = "Semicolon" THEN Tail(p)
    ELSE synchronise_checking_first(Tail(p))

RECURSIVE synchronise(_)
synchronise(p) ==
    IF Len(p) = 0 THEN p
    ELSE IF Head(p).kind = "Semicolon" THEN Tail(p)
    ELSE IF Len(p) > 1 /\ p[2].kind \in {"Class", "Fun", "Var", "For", "If", "While",
                                         "Print", "Return"}
    THEN Tail(p)
    ELSE synchronise(Tail(p))

RECURSIVE expression(_), assignment(_), or(_), or_loop(_, _), and(_), and_loop(_, _)
RECURSIVE parse_level(_, _), match_binary_precedence_with_tokens(_, _, _)
RECURSIVE binary_loop(_, _, _, _), unary(_), call_rule(_), call_loop(_, _)
RECURSIVE finish_call(_, _), arguments(_, _), primary(_)
RECURSIVE declaration(_), class_declaration(_), methods(_, _), var_declaration(_)
RECURSIVE statement(_), for_statement(_), if_statement(_), print_statement(_)
RECURSIVE return_statement(_, _), while_statement(_), expression_statement(_)
RECURSIVE function(_, _), parameters(_, _), block(_), block_loop(_, _)
RECURSIVE self(_, _)

primary(p) ==
    IF Len(p) = 0 THEN Failed(p, unexpected)
    ELSE LET nxt == Head(p)
             grouping(r) ==
                 IF ~r.ok THEN r
                 ELSE LET close(c) == IF ~c.ok THEN c ELSE Parsed(c.p, new_grouping(r.v))
                      IN close(consume(r.p, "RightParen",
                          "Expected ')' after expression."))
         IN CASE nxt.kind = "True" -> Parsed(Tail(p), new_literal(LitBool(TRUE)))
              [] nxt.kind = "False" -> Parsed(Tail(p), new_literal(LitBool(FALSE)))
              [] nxt.kind = "Nil" -> Parsed(Tail(p), new_literal(LitNil))
              [] nxt.kind = "Number" -> Parsed(Tail(p), new_literal(LitNumber(nxt.literal)))
              [] nxt.kind = "String" -> Parsed(Tail(p), new_literal(LitString(nxt.literal)))
              [] nxt.kind = "Identifier" -> Parsed(Tail(p), new_variable(nxt))
              [] nxt.kind = "LeftParen" -> grouping(self("expression", <<Tail(p)>>))
              [] OTHER -> Failed(Tail(p), syntactic(nxt, ""))

\* the loop of finish_call that collects the arguments
arguments(p, args) ==
    LET next(r) ==
            IF ~r.ok THEN r
            ELSE IF check_next(r.p, "Comma") THEN arguments(Tail(r.p), Append(args, r.v))
            ELSE Parsed(r.p, Append(args, r.v))
    IN next(self("expression", <<p>>))

finish_call(p, callee) ==
    LET finish(a) ==
            IF ~a.ok THEN a
            ELSE LET paren(r) ==
                         IF ~r.ok THEN r
                         ELSE IF Len(a.v) > 255
                         THEN Failed(r.p, syntactic(r.v,
                                  "Function cannot have more than 255 arguments."))
                         ELSE Parsed(r.p, new_call(callee, r.v, a.v))
                 IN paren(consume(a.p, "RightParen", "Expected ')' after arguments."))
    IN finish(IF check_next(p, "RightParen") THEN Parsed(p, <<>>) ELSE arguments(p, <<>>))

\* the loop of call
call_loop(p, e) ==
    IF check_next(p, "LeftParen")
    THEN LET called(r) == IF ~r.ok THEN r ELSE call_loop(r.p, r.v)
         IN called(self("finish_call", <<Tail(p), e>>))
    ELSE IF check_next(p, "Dot")
    THEN LET named(r) == IF ~r.ok THEN r ELSE call_loop(r.p, new_get(e, r.v))
         IN named(consume(Tail(p), "Identifier", "Expected property name after '.'."))
    ELSE Parsed(p, e)

\* Parser::call
call_rule(p) ==
    LET first(r) == IF ~r.ok THEN r ELSE call_loop(r.p, r.v)
    IN first(self("primary", <<p>>))

unary(p) ==
    IF match_any(p, UNARY_TOKENS)
    THEN LET right(r) == IF ~r.ok THEN r ELSE Parsed(r.p, new_unary(Head(p), r.v))
         IN right(unary(Tail(p)))
    ELSE self("call_rule", <<p>>)

\* the parse function handed to match_binary_precedence_with_tokens
parse_level(parse, p) ==
    CASE parse = "comparison" ->
            match_binary_precedence_with_tokens(p, "term", COMPARISON_TOKENS)
      [] parse = "term" -> match_binary_precedence_with_tokens(p, "factor", TERM_TOKENS)
      [] parse = "factor" -> match_binary_precedence_with_tokens(p, "unary", FACTOR_TOKENS)
      [] parse = "unary" -> self("unary", <<p>>)

\* the loop of match_binary_precedence_with_tokens
binary_loop(p, parse, kinds, e) ==
    IF match_any(p, kinds)
    THEN LET right(r) ==
                 IF ~r.ok THEN r
                 ELSE binary_loop(r.p, parse, kinds, new_binary(e, Head(p), r.v))
         IN right(parse_level(parse, Tail(p)))
    ELSE Parsed(p, e)

match_binary_precedence_with_tokens(p, parse, kinds) ==
    LET first(r) == IF ~r.ok THEN r ELSE binary_loop(r.p, parse, kinds, r.v)
    IN first(parse_level(parse, p))

equality(p) == match_binary_precedence_with_tokens(p, "comparison", EQUALITY_TOKENS)

and_loop(p, e) ==
    IF check_next(p, "And")
    THEN LET right(r) ==
                 IF ~r.ok THEN r ELSE and_loop(r.p, new_logical(e, Head(p), r.v))
         IN right(self("equality", <<Tail(p)>>))
    ELSE Parsed(p, e)

and(p) ==
    LET first(r) == IF ~r.ok THEN r ELSE and_loop(r.p, r.v)
    IN first(self("equality", <<p>>))

or_loop(p, e) ==
    IF check_next(p, "Or")
    THEN LET right(r) ==
                 IF ~r.ok THEN r ELSE or_loop(r.p, new_logical(e, Head(p), r.v))
         IN right(self("and", <<Tail(p)>>))
    ELSE Parsed(p, e)

or(p) ==
    LET first(r) == IF ~r.ok THEN r ELSE or_loop(r.p, r.v)
    IN first(self("and", <<p>>))

assignment_any_target(p) ==
    LET lhs(r) ==
            IF ~r.ok \/ ~check_next(r.p, "Equal") THEN r
            ELSE IF r.v.k = "Variable"
            THEN LET value(v) ==
                         IF ~v.ok THEN v ELSE Parsed(v.p, new_assign(r.v.name, v.v))
                 IN value(assignment(Tail(r.p)))
            ELSE LET value(v) == IF ~v.ok THEN v ELSE Parsed(v.p, r.v)
                 IN value(assignment(Tail(r.p)))
    IN lhs(self("or", <<p>>))

assignment(p) ==
    LET lhs(r) ==
            IF ~r.ok \/ ~check_next(r.p, "Equal") THEN r
            ELSE IF r.v.k = "Variable"
            THEN LET value(v) ==
                         IF ~v.ok THEN v ELSE Parsed(v.p, new_assign(r.v.name, v.v))
                 IN value(assignment(Tail(r.p)))
            ELSE Failed(Tail(r.p), syntactic(Head(r.p), "Invalid assignment target."))
    IN lhs(self("or", <<p>>))

expression(p) == self("assignment", <<p>>)

expression_statement(p) ==
    LET value(r) ==
            IF ~r.ok THEN r
            ELSE LET end(c) == IF ~c.ok THEN c ELSE Parsed(c.p, new_expression(r.v))
                 IN end(consume(r.p, "Semicolon", "Expected ';' after expression."))
    IN value(self("expression", <<p>>))

print_statement(p) ==
    LET value(r) ==
            IF ~r.ok THEN r
            ELSE LET end(c) == IF ~c.ok THEN c ELSE Parsed(c.p, new_print(r.v))
                 IN end(consume(r.p, "Semicolon", "Expected ';' after expression."))
    IN value(self("expression", <<p>>))

\* return_statement always has a value expression, the literal nil when
\* none is written, and hands it to Stmt::new_return as the value
return_statement(p, token) ==
    LET value(r) ==
            IF ~r.ok THEN r
            ELSE LET end(c) == IF ~c.ok THEN c ELSE Parsed(c.p, new_return(token, Some(r.v)))
                 IN end(consume(r.p, "Semicolon", "Expected ';' after return value."))
    IN value(IF ~check_next(p, "Semicolon") THEN self("expression", <<p>>)
             ELSE Parsed(p, new_literal(LitNil)))

while_statement(p) ==
    LET body(c, r) == IF ~r.ok THEN r ELSE Parsed(r.p, new_while(c, r.v))
        close(c, r) == IF ~r.ok THEN r ELSE body(c, self("statement", <<r.p>>))
        condition(r) ==
            IF ~r.ok THEN r
            ELSE close(r.v, consume(r.p, "RightParen", "Expected ')' after condition."))
        open(r) == IF ~r.ok THEN r ELSE condition(self("expression", <<r.p>>))
    IN open(consume(p, "LeftParen", "Expected '(' after 'while'."))

if_statement(p) ==
    LET else_branch(c, t, r) ==
            IF ~r.ok THEN r ELSE Parsed(r.p, new_if(c, t, Some(r.v)))
        then_branch(c, r) ==
            IF ~r.ok THEN r
            ELSE IF check_next(r.p, "Else")
                THEN else_branch(c, r.v, self("statement", <<Tail(r.p)>>))
            ELSE Parsed(r.p, new_if(c, r.v, None))
        close(c, r) == IF ~r.ok THEN r ELSE then_branch(c, self("statement", <<r.p>>))
        condition(r) ==
            IF ~r.ok THEN r
            ELSE close(r.v, consume(r.p, "RightParen",
                "Expected ')' after if condition."))
        open(r) == IF ~r.ok THEN r ELSE condition(self("expression", <<r.p>>))
    IN open(consume(p, "LeftParen", "Expected '(' after 'if'."))

var_declaration(p) ==
    LET end(name, initializer, r) ==
            IF ~r.ok THEN r ELSE Parsed(r.p, new_var(name, initializer))
        initialized(name, r) ==
            IF ~r.ok THEN r
            ELSE end(name, Some(r.v),
                     consume(r.p, "Semicolon",
                         "Expected ';' after variable declaration."))
        named(r) ==
            IF ~r.ok THEN r
            ELSE IF check_next(r.p, "Equal")
                THEN initialized(r.v, self("expression", <<Tail(r.p)>>))
            ELSE end(r.v, None,
                     consume(r.p, "Semicolon",
                         "Expected ';' after variable declaration."))
    IN named(consume(p, "Identifier", "Expected variable name."))

for_statement(p) ==
    LET loop(i, c, n, r) ==
            IF ~r.ok THEN r
            ELSE LET body == IF n.some THEN new_block(<<r.v, n.v>>) ELSE r.v
                     desugared == new_while(c, body)
                 IN Parsed(r.p, IF i.some THEN new_block(<<i.v, desugared>>)
                                ELSE desugared)
        close(i, c, n, r) == IF ~r.ok THEN r ELSE loop(i, c, n, self("statement", <<r.p>>))
        increment(i, c, r) ==
            IF ~r.ok THEN r
            ELSE close(i, c, Some(new_expression(r.v)),
                       consume(r.p, "RightParen", "Expected ')' after for clauses."))
        semicolon(i, c, r) ==
            IF ~r.ok THEN r
            ELSE IF ~check_next(r.p, "RightParen")
                THEN increment(i, c, self("expression", <<r.p>>))
            ELSE close(i, c, None,
                       consume(r.p, "RightParen", "Expected ')' after for clauses."))
        condition(i, r) ==
            IF ~r.ok THEN r
            ELSE semicolon(i, r.v,
                           consume(r.p, "Semicolon",
                               "Expected ';' after loop condition."))
        initializer(i, q) ==
            IF ~check_next(q, "Semicolon") THEN condition(i, self("expression", <<q>>))
            ELSE condition(i, Parsed(q, new_literal(LitBool(TRUE))))
        initialized(r) == IF ~r.ok THEN r ELSE initializer(Some(r.v), r.p)
        open(r) ==
            IF ~r.ok THEN r
            ELSE IF check_next(r.p, "Semicolon") THEN initializer(None, Tail(r.p))
            ELSE IF check_next(r.p, "Var")
                THEN initialized(self("var_declaration", <<Tail(r.p)>>))
            ELSE initialized(self("expression_statement", <<r.p>>))
    IN open(consume(p, "LeftParen", "Expected '(' after 'for'."))

\* the loop of block; declaration has synchronised when it returns an error
block_loop(p, statements) ==
    LET close(r) == IF ~r.ok THEN r ELSE Parsed(r.p, statements)
        declared(d) ==
            IF ~d.some THEN close(consume(p, "RightBrace", "Expected '}' after block."))
            ELSE IF ~d.ok THEN Failed(d.p, d.v)
            ELSE block_loop(d.p, Append(statements, d.v))
    IN IF check_next(p, "RightBrace")
       THEN close(consume(p, "RightBrace", "Expected '}' after block."))
       ELSE declared(self("declaration", <<p>>))

block(p) == block_loop(p, <<>>)

\* the loop of function that collects the parameters
parameters(p, params) ==
    LET next(r) ==
            IF ~r.ok THEN r
            ELSE IF check_next(r.p, "Comma") THEN parameters(Tail(r.p), Append(params, r.v))
            ELSE Parsed(r.p, Append(params, r.v))
    IN next(consume(p, "Identifier", "Expected a parameter name."))

function(p, kind) ==
    LET body(name, params, r) ==
            IF ~r.ok THEN r ELSE Parsed(r.p, new_function(name, params, r.v))
        brace(name, params, r) == IF ~r.ok
            THEN r ELSE body(name, params, self("block", <<r.p>>))
        close(name, params, r) ==
            IF ~r.ok THEN r
            ELSE brace(name, params,
                       consume(r.p, "LeftBrace", "Expect '{' before " \o kind
                           \o " body."))
        listed(name, r) ==
            IF ~r.ok THEN r
            ELSE IF Len(r.v) > 255
            THEN Failed(r.p, syntactic(name, "Cannot have more than 255 parameters."))
            ELSE close(name, r.v,
                       consume(r.p, "RightParen", "Expected ')' after parameters."))
        open(name, r) ==
            IF ~r.ok THEN r
            ELSE IF check_next(r.p, "RightParen") THEN listed(name, Parsed(r.p, <<>>))
            ELSE listed(name, parameters(r.p, <<>>))
        named(r) ==
            IF ~r.ok THEN r
            ELSE open(r.v, consume(r.p, "LeftParen",
                                   "Expected '(' after " \o kind \o " name."))
    IN named(consume(p, "Identifier", "Expected " \o kind \o " name"))

\* the loop of class_declaration that collects the methods
methods(p, ms) ==
    IF check_next(p, "RightBrace") THEN Parsed(p, ms)
    ELSE LET method(r) == IF ~r.ok THEN r ELSE methods(r.p, Append(ms, r.v))
         IN method(self("function", <<p, "method">>))

\* class_declaration reads no superclass: Stmt::new_class(name, methods)
class_declaration(p) ==
    LET close(name, ms, r) ==
            IF ~r.ok THEN r ELSE Parsed(r.p, new_class(name, None, ms))
        body(name, r) ==
            IF ~r.ok THEN r
            ELSE close(name, r.v, consume(r.p, "RightBrace",
                "Expected '}' after class body."))
        open(name, r) == IF ~r.ok THEN r ELSE body(name, methods(r.p, <<>>))
        named(r) ==
            IF ~r.ok THEN r
            ELSE open(r.v, consume(r.p, "LeftBrace", "Expected '{' before class body."))
    IN named(consume(p, "Identifier", "Expected class name."))

statement(p) ==
    CASE check_next(p, "For") -> self("for_statement", <<Tail(p)>>)
      [] check_next(p, "If") -> self("if_statement", <<Tail(p)>>)
      [] check_next(p, "Print") -> self("print_statement", <<Tail(p)>>)
      [] check_next(p, "Return") -> self("return_statement", <<Tail(p), Head(p)>>)
      [] check_next(p, "While") -> self("while_statement", <<Tail(p)>>)
      [] check_next(p, "LeftBrace") ->
            LET statements(r) == IF ~r.ok THEN r ELSE Parsed(r.p, new_block(r.v))
            IN statements(self("block", <<Tail(p)>>))
      [] OTHER -> IF Len(p) > 0
          THEN self("expression_statement", <<p>>) ELSE Failed(p, unexpected)

\* [some, ok, p, v]: None when the iterator is exhausted, else the result,
\* after synchronise when it is an error
declaration(p) ==
    IF Len(p) = 0 THEN [some |-> FALSE, ok |-> FALSE, p |-> p, v |-> unexpected]
    ELSE LET result(r) ==
                 [some |-> TRUE, ok |-> r.ok, v |-> r.v,
                  p |-> IF r.ok THEN r.p ELSE synchronise(r.p)]
         IN result(CASE check_next(p, "Class") -> self("class_declaration", <<Tail(p)>>)
                     [] check_next(p, "Fun") -> self("function", <<Tail(p), "function">>)
                     [] check_next(p, "Var") -> self("var_declaration", <<Tail(p)>>)
                     [] OTHER -> self("statement", <<p>>))

\* self.<method>(..): a call of a method of the parser on self, by its name,
\* args the iterator and the other arguments
self(method, args) ==
    CASE method = "expression" -> expression(args[1])
      [] method = "assignment" -> assignment(args[1])
      [] method = "or" -> or(args[1])
      [] method = "and" -> and(args[1])
      [] method = "equality" -> equality(args[1])
      [] method = "unary" -> unary(args[1])
      [] method = "call_rule" -> call_rule(args[1])
      [] method = "finish_call" -> finish_call(args[1], args[2])
      [] method = "primary" -> primary(args[1])
      [] method = "declaration" -> declaration(args[1])
      [] method = "class_declaration" -> class_declaration(args[1])
      [] method = "var_declaration" -> var_declaration(args[1])
      [] method = "function" -> function(args[1], args[2])
      [] method = "statement" -> statement(args[1])
      [] method = "for_statement" -> for_statement(args[1])
      [] method = "if_statement" -> if_statement(args[1])
      [] method = "print_statement" -> print_statement(args[1])
      [] method = "return_statement" -> return_statement(args[1], args[2])
      [] method = "while_statement" -> while_statement(args[1])
      [] method = "expression_statement" -> expression_statement(args[1])
      [] method = "block" -> block(args[1])

\* the loop of parse: the results of the declarations, each [ok, v]
RECURSIVE parse_loop(_, _)
parse_loop(p, statements) ==
    LET declared(d) ==
            IF ~d.some THEN statements
            ELSE parse_loop(d.p, Append(statements, [ok |-> d.ok, v |-> d.v]))
    IN declared(self("declaration", <<p>>))

parse(tokens) == parse_loop(tokens, <<>>)

(***************************************************************************)
(* The parser of the earlier version (crate lox_rs, src/src/parser.rs): an *)
(* expression parser over the same token iterator.  Its comparison, term,  *)
(* factor and unary tokens and its consume are those above.                *)
(***************************************************************************)
lox_rs_EQUALITY_TOKENS == {"BangEqual", "Equal"}

RECURSIVE lox_rs_parse_level(_, _), lox_rs_match_binary_precedence_with_tokens(_, _, _)
RECURSIVE lox_rs_binary_loop(_, _, _, _), lox_rs_unary(_), lox_rs_primary(_)

lox_rs_primary(p) ==
    IF Len(p) = 0 THEN Failed(p, unexpected)
    ELSE LET nxt == Head(p)
             grouping(r) ==
                 IF ~r.ok THEN r
                 ELSE LET close(c) == IF ~c.ok THEN c ELSE Parsed(c.p, new_grouping(r.v))
                      IN close(consume(r.p, "RightParen",
                          "Expected ')' after expression."))
         IN CASE nxt.kind = "True" -> Parsed(Tail(p), new_literal(LitBool(TRUE)))
              [] nxt.kind = "False" -> Parsed(Tail(p), new_literal(LitBool(FALSE)))
              [] nxt.kind = "Nil" -> Parsed(Tail(p), new_literal(LitNil))
              [] nxt.kind = "Number" -> Parsed(Tail(p), new_literal(LitNumber(nxt.literal)))
              [] nxt.kind = "String" -> Parsed(Tail(p), new_literal(LitString(nxt.literal)))
              [] nxt.kind = "LeftParen" -> grouping(lox_rs_parse_level("expression", Tail(p)))
              [] OTHER -> Failed(Tail(p), syntactic(nxt, ""))

lox_rs_unary(p) ==
    IF match_any(p, UNARY_TOKENS)
    THEN LET right(r) == IF ~r.ok THEN r ELSE Parsed(r.p, new_unary(Head(p), r.v))
         IN right(lox_rs_unary(Tail(p)))
    ELSE lox_rs_primary(p)

\* the parse function handed to match_binary_precedence_with_tokens, and
\* expression, which is equality
lox_rs_parse_level(level, p) ==
    CASE level \in {"expression", "equality"} ->
            lox_rs_match_binary_precedence_with_tokens(p, "comparison",
                                                       lox_rs_EQUALITY_TOKENS)
      [] level = "comparison" ->
            lox_rs_match_binary_precedence_with_tokens(p, "term", COMPARISON_TOKENS)
      [] level = "term" ->
            lox_rs_match_binary_precedence_with_tokens(p, "factor", TERM_TOKENS)
      [] level = "factor" ->
            lox_rs_match_binary_precedence_with_tokens(p, "unary", FACTOR_TOKENS)
      [] level = "unary" -> lox_rs_unary(p)

\* the loop of match_binary_precedence_with_tokens
lox_rs_binary_loop(p, level, kinds, e) ==
    IF match_any(p, kinds)
    THEN LET right(r) ==
                 IF ~r.ok THEN r
                 ELSE lox_rs_binary_loop(r.p, level, kinds, new_binary(e, Head(p), r.v))
         IN right(lox_rs_parse_level(level, Tail(p)))
    ELSE Parsed(p, e)

lox_rs_match_binary_precedence_with_tokens(p, level, kinds) ==
    LET first(r) == IF ~r.ok THEN r ELSE lox_rs_binary_loop(r.p, level, kinds, r.v)
    IN first(lox_rs_parse_level(level, p))

lox_rs_equality(p) == lox_rs_parse_level("equality", p)

lox_rs_expression(p) == lox_rs_equality(p)

\* Parser::parse of the earlier version
lox_rs_parse(tokens) == lox_rs_expression(tokens)

(***************************************************************************)
(* bin/main.rs, Lox::run: the two halves of partition(Result::is_ok) over  *)
(* a Vec<Result<_>>, unwrapped.                                            *)
(***************************************************************************)
oks(results) ==
    LET is_ok(r) == r.ok
        kept == SelectSeq(results, is_ok)
    IN [i \in DOMAIN kept |-> kept[i].v]

errs(results) ==
    LET is_err(r) == ~r.ok
        kept == SelectSeq(results, is_err)
    IN [i \in DOMAIN kept |-> kept[i].v]

(***************************************************************************)
(* The programs the model runs, written as the trees the parser builds.    *)
(***************************************************************************)
Var(name, line) == new_variable(Ident(name, line))
Num(n) == new_literal(LitNumber(n))
Str(s) == new_literal(LitString(s))
True == new_literal(LitBool(TRUE))
Call0(callee, line) == new_call(callee, Token("RightParen", ")", line), <<>>)
Call1(callee, arg, line) == new_call(callee, Token("RightParen", ")", line), <<arg>>)
This(line) == new_this(Token("This", "this", line))
Return(value, line) == new_return(Token("Return", "return", line), value)
Plus(line) == Token("Plus", "+", line)

RECURSIVE Nest(_, _)
\* the statement s inside d nested blocks
Nest(d, s) == IF d = 0 THEN s ELSE new_block(<<Nest(d - 1, s)>>)

RECURSIVE Repeat(_, _)
Repeat(n, s) == IF n = 0 THEN <<>> ELSE <<s>> \o Repeat(n - 1, s)

\* var a = 1; then two uses of a, the first inside d1 blocks on line l1, the
\* second inside d2 blocks on line l2; a use is `print a;` or `a = 2;`
ScopeUse(use, line) ==
    IF use = "read" THEN new_print(Var("a", line))
    ELSE new_expression(new_assign(Ident("a", line), Num(2)))

ScopeProgram(q) ==
    << new_var(Ident("a", 1), Some(Num(1))),
       Nest(q.d1, ScopeUse(q.use, q.l1)),
       Nest(q.d2, ScopeUse(q.use, q.l2)),
       new_print(Var("a", 9)) >>

\* fun makeCounter() { var i = 0; fun inc() { i = i + 1; return i; } return inc; }
\* var c = makeCounter(); var d = makeCounter(); print c(); .. print d(); ..
CounterProgram(q) ==
    LET L(n) == IF q.oneline THEN 1 ELSE n
        inc == new_function(Ident("inc", L(3)), <<>>,
                 << new_expression(new_assign(Ident("i", L(4)),
                        new_binary(Var("i", L(4)), Plus(L(4)), Num(1)))),
                    Return(Some(Var("i", L(5))), L(5)) >>)
        makeCounter == new_function(Ident("makeCounter", L(1)), <<>>,
                 << new_var(Ident("i", L(2)), Some(Num(0))),
                    inc,
                    Return(Some(Var("inc", L(6))), L(6)) >>)
    IN << makeCounter,
          new_var(Ident("c", L(7)), Some(Call0(Var("makeCounter", L(7)), L(7)))),
          new_var(Ident("d", L(8)), Some(Call0(Var("makeCounter", L(8)), L(8)))) >>
       \o Repeat(q.n1, new_print(Call0(Var("c", L(9)), L(9))))
       \o Repeat(q.n2, new_print(Call0(Var("d", L(10)), L(10))))
       \o Repeat(q.n1, new_print(Call0(Var("c", L(11)), L(11))))

\* the statements ss wrapped in a block, an if or a while
Wrap(w, ss) ==
    CASE w = "none" -> ss
      [] w = "block" -> <<new_block(ss)>>
      [] w = "if" -> <<new_if(True, new_block(ss), None)>>
      [] w = "else" -> <<new_if(new_literal(LitNil), new_print(Str("then")), Some(new_block(ss)))>>
      [] w = "while" -> <<new_while(True, new_block(ss))>>

\* fun f() { W1 { W2 { return [7]; print "dead"; } print "inner"; } print "outer"; }
\* fun g() { print f(); return "g"; print "dead"; }
\* print g();
ReturnProgram(q) ==
    LET ret == Return(IF q.value THEN Some(Num(7)) ELSE None, 2)
        f == new_function(Ident("f", 1), <<>>,
               Wrap(q.w1, Wrap(q.w2, <<ret, new_print(Str("dead"))>>)
                          \o <<new_print(Str("inner"))>>)
               \o <<new_print(Str("outer"))>>)
        g == new_function(Ident("g", 5), <<>>,
               << new_print(Call0(Var("f", 6), 6)),
                  Return(Some(Str("g")), 7),
                  new_print(Str("dead")) >>)
    IN <<f, g, new_print(Call0(Var("g", 9), 9))>>

ThisGet(name, line) == new_get(This(line), Ident(name, line))
ThisSet(name, value, line) == new_set(This(line), Ident(name, line), value)
Field(object, name, line) == new_get(object, Ident(name, line))

\* class A { init(x) { this.x = x; } m() { return "m"; } }
ClassA ==
    new_class(Ident("A", 1), None,
        << new_function(Ident("init", 1), <<Ident("x", 1)>>,
              <<new_expression(ThisSet("x", Var("x", 1), 1))>>),
           new_function(Ident("m", 2), <<>>, <<Return(Some(Str("m")), 2)>>) >>)

\* class N { m() { return "m"; } }
ClassN ==
    new_class(Ident("N", 1), None,
        << new_function(Ident("m", 2), <<>>, <<Return(Some(Str("m")), 2)>>) >>)

Sub(name, super, ms, line) ==
    new_class(Ident(name, line), Some(Var(super, line)), ms)

ClassProgram(q) ==
    LET v == new_literal(q.v) IN
    CASE q.variant = "own_init" ->
           \* var a = A(v); print a.m(); print a.x;
           << ClassA,
              new_var(Ident("a", 3), Some(Call1(Var("A", 3), v, 3))),
              new_print(Call0(Field(Var("a", 4), "m", 4), 4)),
              new_print(Field(Var("a", 5), "x", 5)) >>
      [] q.variant = "inherited_init" ->
           \* class B < A {} var b = B(v); print b.x;
           << ClassA,
              Sub("B", "A", <<>>, 3),
              new_var(Ident("b", 4), Some(Call1(Var("B", 4), v, 4))),
              new_print(Field(Var("b", 5), "x", 5)) >>
      [] q.variant = "inherited_method" ->
           \* class B < N {} var b = B(); print b.m();
           << ClassN,
              Sub("B", "N", <<>>, 3),
              new_var(Ident("b", 4), Some(Call0(Var("B", 4), 4))),
              new_print(Call0(Field(Var("b", 5), "m", 5), 5)) >>
      [] q.variant = "grandparent" ->
           \* class B < N {} class C < B {} var c = C(); print c.m();
           << ClassN,
              Sub("B", "N", <<>>, 3),
              Sub("C", "B", <<>>, 4),
              new_var(Ident("c", 5), Some(Call0(Var("C", 5), 5))),
              new_print(Call0(Field(Var("c", 6), "m", 6), 6)) >>
      [] q.variant = "override" ->
           \* class B < N { m() { return v; } } var b = B(); print b.m();
           \* b.m = "field"; print b.m;
           << ClassN,
              Sub("B",
                  "N", <<new_function(Ident("m", 3), <<>>, <<Return(Some(v), 3)>>)>>, 3),
              new_var(Ident("b", 4), Some(Call0(Var("B", 4), 4))),
              new_print(Call0(Field(Var("b", 5), "m", 5), 5)),
              new_expression(new_set(Var("b", 6), Ident("m", 6), Str("field"))),
              new_print(Field(Var("b", 7), "m", 7)) >>
      [] q.variant = "missing" ->
           \* var n = N(); print n.nope;
           << ClassN,
              new_var(Ident("n", 3), Some(Call0(Var("N", 3), 3))),
              new_print(Field(Var("n", 4), "nope", 4)) >>
      [] q.variant = "init_return" ->
           \* class I { init() { this.n = v; return; this.n = "dead"; } }
           \* var a = I(); var b = a.init(); b.f = 7; print a.f; print a.n;
           << new_class(Ident("I", 1), None,
                 << new_function(Ident("init", 1), <<>>,
                       << new_expression(ThisSet("n", v, 1)),
                          Return(None, 2),
                          new_expression(ThisSet("n", Str("dead"), 3)) >>) >>),
              new_var(Ident("a", 4), Some(Call0(Var("I", 4), 4))),
              new_var(Ident("b", 5), Some(Call0(Field(Var("a", 5), "init", 5), 5))),
              new_expression(new_set(Var("b", 6), Ident("f", 6), Num(7))),
              new_print(Field(Var("a", 7), "f", 7)),
              new_print(Field(Var("a", 8), "n", 8)) >>
      [] q.variant = "init_falls_off" ->
           \* class I { init() { this.n = v; } }
           \* var a = I(); var b = a.init(); b.f = 7; print a.f;
           << new_class(Ident("I", 1), None,
                 << new_function(Ident("init", 1), <<>>,
                       << new_expression(ThisSet("n", v, 1)) >>) >>),
              new_var(Ident("a", 4), Some(Call0(Var("I", 4), 4))),
              new_var(Ident("b", 5), Some(Call0(Field(Var("a", 5), "init", 5), 5))),
              new_expression(new_set(Var("b", 6), Ident("f", 6), Num(7))),
              new_print(Field(Var("a", 7), "f", 7)) >>
      [] q.variant = "outer_in_subclass" ->
           \* var t = v; class B < N { get() { return t; } } print B().get();
           << new_var(Ident("t", 1), Some(v)),
              ClassN,
              Sub("B", "N", <<new_function(Ident("get", 3), <<>>,
                                  <<Return(Some(Var("t", 3)), 3)>>)>>, 3),
              new_print(Call0(Field(Call0(Var("B", 4), 4), "get", 4), 4)) >>

\* class P { put(v) { this.f = v; } take() { return this.f; } }
\* var a = P(); var b = a; var other = P();
\* fun make(o) { fun h() { return o; } return h; }  var h = make(a);
\* other.f = "other";  <set f on a through one handle>
\* <print f of a through another handle>  print other.f;
Handle(h, line) ==
    CASE h = "var" -> Var("a", line)
      [] h = "alias" -> Var("b", line)
      [] h = "closure" -> Call0(Var("h", line), line)

PropProgram(q) ==
    LET v == new_literal(q.v)
        classP == new_class(Ident("P", 1), None,
            << new_function(Ident("put", 1), <<Ident("v", 1)>>,
                  <<new_expression(ThisSet("f", Var("v", 1), 1))>>),
               new_function(Ident("take", 2), <<>>,
                  <<Return(Some(ThisGet("f", 2)), 2)>>) >>)
        make == new_function(Ident("make", 6), <<Ident("o", 6)>>,
            << new_function(Ident("h", 7), <<>>, <<Return(Some(Var("o", 7)), 7)>>),
               Return(Some(Var("h", 8)), 8) >>)
        set == IF q.set = "this"
               THEN new_expression(Call1(Field(Var("a", 11), "put", 11), v, 11))
               ELSE new_expression(new_set(Handle(q.set, 11), Ident("f", 11), v))
        get == IF q.get = "this"
               THEN new_print(Call0(Field(Var("a", 12), "take", 12), 12))
               ELSE new_print(Field(Handle(q.get, 12), "f", 12))
    IN << classP,
          new_var(Ident("a", 3), Some(Call0(Var("P", 3), 3))),
          new_var(Ident("b", 4), Some(Var("a", 4))),
          new_var(Ident("other", 5), Some(Call0(Var("P", 5), 5))),
          make,
          new_var(Ident("h", 9), Some(Call1(Var("make", 9), Var("a", 9), 9))) >>
       \o (IF q.probe = "other"
           THEN <<new_expression(new_set(Var("other", 10), Ident("f", 10), Str("other")))>>
           ELSE <<>>)
       \o << set, get, new_print(Field(Var("other", 13), "f", 13)) >>

\* fun f(x) { print "ran"; }  class C { init(x) { print "ran"; } }  class D {}
\* class E < C {}   print <callee>(<nargs arguments>);  print "end";
Argument(kind) ==
    CASE kind = "number" -> Num(3)
      [] kind = "string" -> Str("s")
      [] kind = "nil" -> new_literal(LitNil)

ArityProgram(q) ==
    LET ran == new_print(Str("ran"))
        callee == CASE q.callee = "function" -> "f"
                    [] q.callee = "class" -> "C"
                    [] q.callee = "class_noinit" -> "D"
                    [] q.callee = "subclass" -> "E"
                    [] q.callee = "native" -> "clock"
    IN << new_function(Ident("f", 1), <<Ident("x", 1)>>, <<ran>>),
          new_class(Ident("C", 2), None,
             <<new_function(Ident("init", 2), <<Ident("x", 2)>>, <<ran>>)>>),
          new_class(Ident("D", 3), None, <<>>),
          Sub("E", "C", <<>>, 4),
          new_print(new_call(Var(callee, 5), Token("RightParen", ")", 5),
                             Repeat(q.nargs, Argument(q.arg)))),
          new_print(Str("end")) >>

\* fun f() {}  class C {}  var i = C();  print <left> <op> <right>;
\* an operand is a literal, or a variable holding a native function, a
\* function, a class or an instance
Operand(o, line) ==
    CASE o = "nil" -> new_literal(LitNil)
      [] o = "true" -> True
      [] o = "1" -> Num(1)
      [] o = "2" -> Num(2)
      [] o = "s" -> Str("s")
      [] OTHER -> Var(o, line)

\* the source text of an operator
Lexeme(kind) ==
    CASE kind = "Minus" -> "-"
      [] kind = "Plus" -> "+"
      [] kind = "Slash" -> "/"
      [] kind = "Star" -> "*"
      [] kind = "Greater" -> ">"
      [] kind = "GreaterEqual" -> ">="
      [] kind = "Less" -> "<"
      [] kind = "LessEqual" -> "<="
      [] kind = "EqualEqual" -> "=="
      [] kind = "BangEqual" -> "!="

BinaryExpression(q) ==
    new_binary(Operand(q.left, 4), Token(q.op, Lexeme(q.op), 4), Operand(q.right, 4))

BinaryProgram(q) ==
    << new_function(Ident("f", 1), <<>>, <<>>),
       new_class(Ident("C", 2), None, <<>>),
       new_var(Ident("i", 3), Some(Call0(Var("C", 3), 3))),
       new_print(BinaryExpression(q)) >>

\* a statement that raises a runtime error, or `1;` which raises none
Failing(fail, line) ==
    CASE fail = "minus" ->
            new_expression(new_unary(Token("Minus", "-", line), Str("s")))
      [] fail = "undefined" -> new_expression(Var("nope", line))
      [] fail = "call" -> new_expression(Call0(Str("s"), line))
      [] fail = "none" -> new_expression(Num(1))

\* var a = v;  fun f() { { <fail>; print "dead"; } }  print a;
\* <fail>, at top level, in a block, in a loop or in a call of f;  print "after";
ErrorProgram(q) ==
    LET failing == Failing(q.fail, 4)
        f == new_function(Ident("f", 2), <<>>,
                <<new_block(<<Failing(q.fail, 2), new_print(Str("dead"))>>)>>)
        raised == CASE q.where = "top" -> failing
                    [] q.where = "block" -> new_block(<<new_block(<<failing>>)>>)
                    [] q.where = "while" -> new_while(True, new_block(<<failing>>))
                    [] q.where = "call" -> new_block(<<new_expression(Call0(Var("f", 4), 4))>>)
    IN << new_var(Ident("a", 1), Some(new_literal(q.v))),
          f,
          new_print(Var("a", 3)),
          raised,
          new_print(Str("after")) >>

\* the statements of a later call of interpret on the same interpreter:
\* print a;  on line q.later
NextLine(q) ==
    IF q.family = "error" THEN <<new_print(Var("a", q.later))>> ELSE <<>>

\* a function body that names a top-level binding declared after it, called
\* after that declaration ran:
\*   fun f() { return <name>; }  <declaration of name>  print f();
\* or a binding declared before it, or the native clock, or nothing at all
GlobalProgram(q) ==
    LET v == new_literal(q.v)
        f(e) == new_function(Ident("f", 1), <<>>, <<Return(Some(e), 1)>>)
        print_f == new_print(Call0(Var("f", 3), 3))
    IN CASE q.variant = "fun_later" ->
              << f(Call0(Var("g", 1), 1)),
                 new_function(Ident("g", 2), <<>>, <<Return(Some(v), 2)>>),
                 print_f >>
         [] q.variant = "var_later" ->
              << f(Var("x", 1)), new_var(Ident("x", 2), Some(v)), print_f >>
         [] q.variant = "class_later" ->
              << f(Var("K", 1)), new_class(Ident("K", 2), None, <<>>), print_f >>
         [] q.variant = "var_before" ->
              << new_var(Ident("x", 0), Some(v)), f(Var("x", 1)), print_f >>
         [] q.variant = "native" ->
              << f(Var("clock", 1)), print_f >>
         [] q.variant = "never" ->
              << f(Var("y", 1)), new_var(Ident("x", 2), Some(v)), print_f >>

\* an initializer that reads the variable `name`, in each place an expression
\* holds a sub-expression
Initializer(form, name, line) ==
    CASE form = "bare" -> Var(name, line)
      [] form = "binary" -> new_binary(Num(1), Plus(line), Var(name, line))
      [] form = "grouping" -> new_grouping(Var(name, line))
      [] form = "unary" -> new_unary(Token("Bang", "!", line), Var(name, line))
      [] form = "argument" -> Call1(Var("clock", line), Var(name, line), line)
      [] form = "callee" -> Call0(Var(name, line), line)
      [] form = "get" -> new_get(Var(name, line), Ident("x", line))
      [] form = "logical" -> new_logical(True, Token("Or", "or", line), Var(name, line))
      [] form = "assign" -> new_assign(Ident("b", line), Var(name, line))
      [] form = "set" -> new_set(Var("clock", line), Ident("x", line), Var(name, line))

\* print 1;  [var a = 1;]  var a = <initializer>; print a;  print 2;
\* with the declaration at top level, in one or two blocks, in a function
\* body or in a method body; the initializer reads a, or clock instead
SelfInitProgram(q) ==
    LET own ==
            << new_var(Ident("a", 3),
                       Some(Initializer(q.form, IF q.reads THEN "a" ELSE "clock", 3))),
               new_print(Var("a", 4)) >>
        placed == CASE q.place = "top" -> own
                    [] q.place = "block" -> <<new_block(own)>>
                    [] q.place = "block2" -> <<new_block(<<new_block(own)>>)>>
                    [] q.place = "function" ->
                          <<new_function(Ident("f", 3), <<>>, own)>>
                    [] q.place = "method" ->
                          <<new_class(Ident("K", 3), None,
                                      <<new_function(Ident("m", 3), <<>>, own)>>)>>
    IN <<new_print(Num(1))>>
       \o (IF q.outer THEN <<new_var(Ident("a", 2), Some(Num(1)))>> ELSE <<>>)
       \o placed
       \o <<new_print(Num(2))>>

\* a declaration of `name` of one kind: var name = <line>;  fun name() {}
\* class name {}
Declaration(kind, name, line) ==
    CASE kind = "var" -> new_var(Ident(name, line), Some(Num(line)))
      [] kind = "fun" -> new_function(Ident(name, line), <<>>, <<>>)
      [] kind = "class" -> new_class(Ident(name, line), None, <<>>)

\* a first declaration of a (a var, a function, a class, or the parameter of
\* a function h that is called with 1), then a second declaration in the
\* same frame, or in a frame inside it followed by `print a;` there, or of
\* another name; then `print a;` in the first frame
DeclareProgram(q) ==
    LET second ==
            CASE q.rel = "same" /\ q.second # "param" -> <<Declaration(q.second, "a", 5)>>
              [] q.rel = "other" /\ q.second # "param" -> <<Declaration(q.second, "b", 5)>>
              [] q.rel = "inner" /\ q.second # "param" ->
                    <<new_block(<<Declaration(q.second, "a", 5), new_print(Var("a", 5))>>)>>
              [] q.rel = "inner" /\ q.second = "param" ->
                    << new_function(Ident("g", 5), <<Ident("a", 5)>>,
                                    <<new_print(Var("a", 5))>>),
                       new_expression(Call1(Var("g", 5), Num(5), 5)) >>
              [] OTHER -> <<>>
        rest == second \o <<new_print(Var("a", 6))>>
        params == CASE q.second = "param" /\ q.rel = "same" -> <<Ident("a", 1), Ident("a", 1)>>
                    [] q.second = "param" /\ q.rel = "other" -> <<Ident("a", 1), Ident("b", 1)>>
                    [] OTHER -> <<Ident("a", 1)>>
        frame == IF q.first = "param"
                 THEN << new_function(Ident("h", 1), params, rest),
                         new_expression(new_call(Var("h", 7), Token("RightParen", ")", 7),
                                                 Repeat(Len(params), Num(1)))) >>
                 ELSE <<Declaration(q.first, "a", 1)>> \o rest
    IN IF q.at = "top" THEN frame ELSE <<new_block(frame)>>

\* the statements Lox::run hands to the interpreter for a source text: the
\* Ok results of Parser::parse over the Ok results of the scanner
parsed(source) == oks(parse(oks(collect(Scanner_new(source), <<>>))))

\* a source text with a return statement, bare or with a value, q.place says
\* where:
\*   top                return 2;
\*   block              { return 2; }
\*   function           fun f() { return 2; }
\*   method             class C { m() { return 2; } }
\*   init               class C { init() { return 2; } }
\*   fun_in_init        class C { init() { fun g() { return 2; } } }
\*   after_fun_in_init  class C { init() { fun g() { return 1; } return 2; } }
\*   after_fun          fun g() { return 1; } return 2;
\*   after_fun_in_fun   fun f() { fun g() { return 1; } return 2; }
ReturnsSource(q) ==
    LET ret == IF q.value THEN <<"r", "e", "t", "u", "r", "n", " ", "2", ";">>
               ELSE <<"r", "e", "t", "u", "r", "n", ";">>
        g == <<"f", "u", "n", " ", "g", "(", ")", " ", "{", " ", "r", "e", "t", "u",
            "r", "n", " ", "1", ";", " ", "}", " ">>
    IN CASE q.place = "top" -> ret
         [] q.place = "block" -> <<"{", " ">> \o ret \o <<" ", "}">>
         [] q.place = "function" -> <<"f", "u", "n", " ", "f", "(", ")", " ", "{",
             " ">> \o ret \o <<" ", "}">>
         [] q.place = "method" ->
               <<"c", "l", "a", "s", "s", " ", "C", " ", "{", " ", "m", "(", ")", " ",
                   "{", " ">> \o ret \o <<" ", "}", " ", "}">>
         [] q.place = "init" ->
               <<"c", "l", "a", "s", "s", " ", "C", " ", "{", " ", "i", "n", "i", "t",
                   "(", ")", " ", "{", " ">> \o ret \o <<" ", "}", " ", "}">>
         [] q.place = "fun_in_init" ->
               <<"c", "l", "a", "s", "s", " ", "C", " ", "{", " ", "i", "n", "i", "t",
                   "(", ")", " ", "{", " ", "f", "u", "n", " ", "g", "(", ")", " ",
                   "{", " ">> \o ret \o <<" ", "}", " ", "}", " ", "}">>
         [] q.place = "after_fun_in_init" ->
               <<"c", "l", "a", "s", "s", " ", "C", " ", "{", " ", "i", "n", "i", "t",
                   "(", ")", " ", "{", " ">> \o g \o ret \o <<" ", "}", " ", "}">>
         [] q.place = "after_fun" -> g \o ret
         [] q.place = "after_fun_in_fun" -> <<"f", "u", "n", " ", "f", "(", ")", " ",
             "{", " ">> \o g \o ret \o <<" ", "}">>

\* a `this.f;` or `super.f;` statement, q.place says where:
\*   top                    if (false) <use>
\*   function               fun f() { <use> }
\*   block_in_function      fun f() { { <use> } }
\*   after_class            class C { m() {} }  if (false) <use>
\*   method                 class C { m() { <use> } }
\*   init                   class C { init() { <use> } }
\*   fun_in_method          class C { m() { fun g() { <use> } } }
\*   after_class_in_method  class C { m() { class D { n() {} }  <use> } }
\* no function is called, so no use is ever evaluated
ThisSuperProgram(q) ==
    LET use == new_expression(
                   IF q.keyword = "this" THEN new_get(This(2), Ident("f", 2))
                   ELSE new_super(Token("Super", "super", 2), Ident("f", 2)))
        unreached == new_if(new_literal(LitBool(FALSE)), use, None)
        C(name, body) ==
            new_class(Ident("C", 1), None, <<new_function(Ident(name, 1), <<>>, body)>>)
    IN CASE q.place = "top" -> <<unreached>>
         [] q.place = "function" -> <<new_function(Ident("f", 1), <<>>, <<use>>)>>
         [] q.place = "block_in_function" ->
               <<new_function(Ident("f", 1), <<>>, <<new_block(<<use>>)>>)>>
         [] q.place = "after_class" -> <<C("m", <<>>), unreached>>
         [] q.place = "method" -> <<C("m", <<use>>)>>
         [] q.place = "init" -> <<C("init", <<use>>)>>
         [] q.place = "fun_in_method" ->
               <<C("m", <<new_function(Ident("g", 1), <<>>, <<use>>)>>)>>
         [] q.place = "after_class_in_method" ->
               <<C("m", << new_class(Ident("D", 1), None,
                                     <<new_function(Ident("n", 1), <<>>, <<>>)>>),
                           use >>)>>

Values == {LitNumber(1), LitString("s")}

OutsideClass == {"top", "function", "block_in_function", "after_class"}

InsideClass == {"method", "init", "fun_in_method", "after_class_in_method"}

ThisSuperPrograms ==
    [family : {"thissuper"}, keyword : {"this", "super"},
     place : OutsideClass \cup InsideClass]

ReturnPlaces ==
    {"top", "block", "function", "method", "init", "fun_in_init", "after_fun_in_init",
     "after_fun", "after_fun_in_fun"}

ReturnsPrograms == [family : {"returns"}, place : ReturnPlaces, value : BOOLEAN]

DeclarationKinds == {"var", "fun", "class", "param"}

\* a parameter shares a frame only with the parameters before it
DeclarePrograms ==
    {q \in [family : {"declare"}, first : DeclarationKinds, second : DeclarationKinds,
            rel : {"same", "inner", "other"}, at : {"top", "block"}] :
        (q.second = "param" /\ q.rel # "inner") => q.first = "param"}

InitializerForms ==
    {"bare", "binary", "grouping", "unary", "argument", "callee", "get", "logical",
     "assign", "set"}

\* a second top-level declaration of a is another error
SelfInitPrograms ==
    {q \in [family : {"selfinit"}, form : InitializerForms,
            place : {"top", "block", "block2", "function", "method"},
            outer : BOOLEAN, reads : BOOLEAN] :
        ~(q.place = "top" /\ q.outer)}

GlobalVariants == {"fun_later", "var_later", "class_later", "var_before", "native",
    "never"}

GlobalPrograms ==
    {[family |-> "global", variant |-> g, v |-> v] : g \in GlobalVariants, v \in Values}

\* a loop around a statement that raises nothing would not end
ErrorPrograms ==
    {q \in [family : {"error"}, fail : {"minus", "undefined", "call", "none"},
            where : {"top", "block", "while", "call"}, later : {3, 20}, v : Values] :
        ~(q.fail = "none" /\ q.where = "while")}

ScopePrograms ==
    {[family |-> "scope", d1 |-> d1, d2 |-> d2, l1 |-> 2, l2 |-> l2, use |-> use] :
        d1 \in 0..MaxNest, d2 \in 0..MaxNest, l2 \in {2, 3}, use \in {"read", "write"}}

CounterPrograms ==
    {[family |-> "counter", n1 |-> n1, n2 |-> n2, oneline |-> o] :
        n1 \in 0..MaxCalls, n2 \in 0..MaxCalls, o \in BOOLEAN}

Wrappers == {"none", "block", "if", "else", "while"}

ReturnPrograms ==
    {[family |-> "return", w1 |-> w1, w2 |-> w2, value |-> b] :
        w1 \in Wrappers, w2 \in Wrappers, b \in BOOLEAN}

ClassVariants ==
    {"own_init", "inherited_init", "inherited_method", "grandparent", "override",
     "missing", "init_return", "init_falls_off", "outer_in_subclass"}

ClassPrograms == {[family |-> "class", variant |-> c, v |-> v] : c \in ClassVariants, v \in Values}

Handles == {"var", "alias", "closure", "this"}

PropPrograms ==
    {[family |-> "prop", set |-> s, get |-> g, probe |-> p, v |-> v] :
        s \in Handles, g \in Handles, p \in {"other", "fresh"}, v \in Values}

ArityPrograms ==
    {[family |-> "arity", callee |-> c, nargs |-> n, arg |-> a] :
        c \in {"function", "class", "class_noinit", "subclass", "native"},
        n \in 0..2, a \in {"number", "string", "nil"}}

LiteralOperands == {"nil", "true", "1", "2", "s"}

Operands == LiteralOperands \cup {"clock", "f", "C", "i"}

ArithmeticOperators == {"Minus", "Slash", "Star", "Greater", "GreaterEqual", "Less",
    "LessEqual"}

BinaryOperators == ArithmeticOperators \cup {"Plus", "EqualEqual", "BangEqual"}

BinaryPrograms ==
    {[family |-> "binary", op |-> op, left |-> l, right |-> r] :
        op \in BinaryOperators, l \in Operands, r \in Operands}

(***************************************************************************)
(* bin/main.rs: Lox, which owns the interpreter and the error sink, and    *)
(* Lox::run over a source text.  Each of its three stages is one action;   *)
(* std::process::exit ends the run.                                        *)
(***************************************************************************)
\* the source texts given to Lox::run
LoxSource(q) ==
    CASE q.text = "two_prints" -> <<"p", "r", "i", "n", "t", " ", "1", ";", " ", "p",
        "r", "i", "n", "t", " ", "2", ";">>
      [] q.text = "lexical" -> <<"p", "r", "i", "n", "t", " ", "1", ";", " ", "@">>
      [] q.text = "lexical_and_syntax" -> <<"p", "r", "i", "n", "t", " ", ";", " ", "@">>
      [] q.text = "syntax" -> <<"p", "r", "i", "n", "t", " ", "1", ";", " ", "p", "r",
          "i", "n", "t", " ", ";">>
      [] q.text = "top_return" -> <<"p", "r", "i", "n", "t", " ", "1", ";", " ", "r",
          "e", "t", "u", "r", "n", " ", "2", ";">>
      [] q.text = "own_initializer" -> <<"p", "r", "i", "n", "t", " ", "1", ";", " ",
          "{", " ", "v", "a", "r", " ", "a", " ", "=", " ", "a", ";", " ", "}">>
      [] q.text = "runtime" -> <<"p", "r", "i", "n", "t", " ", "1", ";", " ", "p",
          "r", "i", "n", "t", " ", "-", "\"", "s", "\"", ";">>
      [] q.text = "block" -> <<"v", "a", "r", " ", "a", " ", "=", " ", "1", ";", " ",
          "{", " ", "p", "r", "i", "n", "t", " ", "a", ";", " ", "}">>
      [] q.text = "function" -> <<"f", "u", "n", " ", "f", "(", "a", ")", " ", "{",
          " ", "r", "e", "t", "u", "r", "n", " ", "a", ";", " ", "}", " ", "p", "r",
          "i", "n", "t", " ", "f", "(", "1", ")", ";">>
      [] q.text = "class" -> <<"c", "l", "a", "s", "s", " ", "C", " ", "{", " ", "m",
          "(", ")", " ", "{", "}", " ", "}">>
      [] q.text = "cake_number" ->
            <<"c", "l", "a", "s", "s", " ", "C", " ", "{", " ", "i", "n", "i", "t",
                "(", "a", ")", " ", "{", " ", "t", "h", "i", "s", ".", "f", " ", "=",
                " ", "a", ";", " ", "}", " ", "m", "(", ")", " ", "{", " ", "r", "e",
                "t", "u", "r", "n", " ", "t", "h", "i", "s", ".", "f", ";", " ", "}",
                " ", "}", " ", "p", "r", "i", "n", "t", " ", "C", "(", "1", ")", ".",
                "m", "(", ")", ";">>
      [] q.text = "cake_string" ->
            <<"c", "l", "a", "s", "s", " ", "C", " ", "{", " ", "i", "n", "i", "t",
                "(", "a", ")", " ", "{", " ", "t", "h", "i", "s", ".", "f", " ", "=",
                " ", "a", ";", " ", "}", " ", "m", "(", ")", " ", "{", " ", "r", "e",
                "t", "u", "r", "n", " ", "t", "h", "i", "s", ".", "f", ";", " ", "}",
                " ", "}", " ", "p", "r", "i", "n", "t", " ", "C", "(", "\"", "s",
                "\"", ")", ".", "m", "(", ")", ";">>

\* the texts that are programs of the grammar, and their top-level statements
ValidTexts ==
    {"two_prints", "top_return", "own_initializer", "runtime", "block", "function",
     "class", "cake_number", "cake_string"}

TopLevelStatements(q) == IF q.text = "class" THEN 1 ELSE 2

LoxTexts == ValidTexts \cup {"lexical", "lexical_and_syntax", "syntax"}

LoxPrograms == [family : {"lox"}, text : LoxTexts]

\* Lox::new, with what the run has produced so far: exit is the code given
\* to std::process::exit
Lox_new == [tokens |-> <<>>, results |-> <<>>, err_out |-> <<>>, exit |-> None]

\* { var t = "t"; class N {} class B [< N] { get() { {..{ return t; }..} } }
\*   print B().get(); }
\* with the return inside q.depth blocks of the method body
LayoutProgram(q) ==
    << new_block(
          << new_var(Ident("t", 1), Some(Str("t"))),
             new_class(Ident("N", 2), None, <<>>),
             new_class(Ident("B", 3),
                       IF q.superclass THEN Some(Var("N", 3)) ELSE None,
                       << new_function(Ident("get", 4), <<>>,
                             <<Nest(q.depth, Return(Some(Var("t", 5)), 5))>>) >>),
             new_print(Call0(Field(Call0(Var("B", 6), 6), "get", 6), 6)) >>) >>

LayoutPrograms == [family : {"layout"}, superclass : BOOLEAN, depth : 0..MaxNest]

Programs ==
    ScopePrograms \cup CounterPrograms \cup ReturnPrograms \cup ClassPrograms
    \cup PropPrograms \cup ArityPrograms \cup BinaryPrograms \cup ErrorPrograms
    \cup GlobalPrograms \cup SelfInitPrograms \cup DeclarePrograms \cup ReturnsPrograms
    \cup ThisSuperPrograms \cup LayoutPrograms

Statements(q) ==
    CASE q.family = "scope" -> ScopeProgram(q)
      [] q.family = "counter" -> CounterProgram(q)
      [] q.family = "return" -> ReturnProgram(q)
      [] q.family = "class" -> ClassProgram(q)
      [] q.family = "prop" -> PropProgram(q)
      [] q.family = "arity" -> ArityProgram(q)
      [] q.family = "binary" -> BinaryProgram(q)
      [] q.family = "error" -> ErrorProgram(q)
      [] q.family = "global" -> GlobalProgram(q)
      [] q.family = "selfinit" -> SelfInitProgram(q)
      [] q.family = "declare" -> DeclareProgram(q)
      [] q.family = "returns" -> parsed(ReturnsSource(q))
      [] q.family = "thissuper" -> ThisSuperProgram(q)
      [] q.family = "layout" -> LayoutProgram(q)
      [] q.family = "lox" -> parsed(LoxSource(q))

(***************************************************************************)
(* The run of one program: Resolver::new(&mut interpreter), resolve_stmts  *)
(* over the whole program, then Interpreter::interpret.  One step of       *)
(* either loop is one action.                                              *)
(***************************************************************************)
\* the earlier version has literals only: it is given the expression of a
\* binary program whose operands are literals, and nothing otherwise
lox_rs_new(q) ==
    IF q.family = "binary" /\ q.left \in LiteralOperands /\ q.right \in LiteralOperands
    THEN [state |-> "ready", expr |-> BinaryExpression(q), writer |-> <<>>, error |-> None]
    ELSE [state |-> "idle", expr |-> new_literal(LitNil), writer |-> <<>>, error |-> None]

Init ==
    /\ \/ program \in Programs /\ phase = "resolve"
       \/ program \in LoxPrograms /\ phase = "scan"
    /\ idx = 1
    /\ interpreter = Interpreter_new
    /\ resolver = Resolver_new(Interpreter_new.locals)
    /\ error = None
    /\ lox_rs = lox_rs_new(program)
    /\ lox = Lox_new

\* one iteration of the loop of Resolver::resolve_stmts
ResolveStmts ==
    /\ phase = "resolve"
    /\ idx <= Len(Statements(program))
    /\ LET resolved(r) ==
               /\ resolver' = r
               /\ interpreter' = [interpreter EXCEPT !.locals = r.locals]
               /\ IF r.err.some
                  THEN /\ phase' = "static_error"
                       /\ error' = r.err
                       /\ idx' = idx
                  ELSE /\ phase' = IF idx = Len(Statements(program))
                                   THEN "interpret" ELSE "resolve"
                       /\ idx' = IF idx = Len(Statements(program)) THEN 1 ELSE idx + 1
                       /\ error' = error
       IN resolved(resolve_stmt(resolver, Statements(program)[idx]))
    /\ UNCHANGED <<program, lox_rs, lox>>

\* one iteration of the loop of Interpreter::interpret
Interpret ==
    /\ phase = "interpret"
    /\ idx <= Len(Statements(program))
    /\ LET executed(r) ==
               /\ interpreter' = r.m
               /\ CASE r.thrown.kind = "Return" ->
                         /\ phase' = "panic"
                         /\ error' = Some("return should never make it this far up the stack.")
                         /\ idx' = idx
                    [] r.thrown.kind = "Error" ->
                         /\ phase' = "runtime_error"
                         /\ error' = Some(r.thrown.message)
                         /\ idx' = idx
                    [] r.thrown.kind = "Panic" ->
                         /\ phase' = "panic"
                         /\ error' = Some(r.thrown.message)
                         /\ idx' = idx
                    [] r.thrown.kind = "Fuel" ->
                         /\ phase' = "out_of_fuel"
                         /\ error' = error
                         /\ idx' = idx
                    [] r.thrown.kind = "None" ->
                         /\ phase' = IF idx = Len(Statements(program))
                                     THEN "done" ELSE "interpret"
                         /\ idx' = idx + 1
                         /\ error' = error
       IN executed(execute(interpreter, Statements(program)[idx]))
    /\ UNCHANGED <<program, resolver, lox_rs, lox>>

\* a later call on the same interpreter, after interpret has returned:
\* Resolver::new(&mut interpreter), resolve_stmts and interpret over the
\* statements of the next line
RunNextLine ==
    /\ phase \in {"done", "runtime_error"}
    /\ NextLine(program) # <<>>
    /\ LET interpreted(r) ==
               /\ interpreter' = r.m
               /\ phase' = CASE r.thrown.kind = "None" -> "next_done"
                             [] r.thrown.kind = "Error" -> "next_runtime_error"
                             [] r.thrown.kind = "Panic" -> "next_panic"
                             [] r.thrown.kind = "Fuel" -> "next_out_of_fuel"
               /\ error' = IF r.thrown.kind \in {"Error", "Panic"}
                           THEN Some(r.thrown.message) ELSE None
           resolved(r) ==
               /\ resolver' = r
               /\ IF r.err.some
                  THEN /\ phase' = "next_static_error"
                       /\ error' = r.err
                       /\ interpreter' = [interpreter EXCEPT !.locals = r.locals]
                  ELSE interpreted(interpret([interpreter EXCEPT !.locals = r.locals],
                                             NextLine(program)))
       IN resolved(resolve_stmts(Resolver_new(interpreter.locals), NextLine(program)))
    /\ UNCHANGED <<program, idx, lox_rs, lox>>

\* Interpreter::interpret of the earlier version
lox_rs_Interpret ==
    /\ lox_rs.state = "ready"
    /\ lox_rs' = lox_rs_interpret(lox_rs)
    /\ UNCHANGED <<program, phase, idx, resolver, interpreter, error, lox>>

\* Lox::run, the scan: the scanner's results are partitioned, and any
\* lexical error is written and ends the run with exit code 65
Lox_run_scan ==
    /\ phase = "scan"
    /\ LET scanned(rs) ==
               IF errs(rs) # <<>>
               THEN /\ lox' = [lox EXCEPT !.err_out = errs(rs), !.exit = Some(65)]
                    /\ phase' = "lexical_error"
               ELSE /\ lox' = [lox EXCEPT !.tokens = oks(rs)]
                    /\ phase' = "parse"
       IN scanned(collect(Scanner_new(LoxSource(program)), <<>>))
    /\ UNCHANGED <<program, idx, resolver, interpreter, error, lox_rs>>

\* Lox::run, the parse: any syntax error is written and ends the run with
\* exit code 65
Lox_run_parse ==
    /\ phase = "parse"
    /\ LET parsed_as(rs) ==
               /\ lox' = [lox EXCEPT !.results = rs, !.err_out = errs(rs),
                                     !.exit = IF errs(rs) # <<>> THEN Some(65) ELSE None]
               /\ phase' = IF errs(rs) # <<>> THEN "syntax_error" ELSE "run"
       IN parsed_as(parse(lox.tokens))
    /\ UNCHANGED <<program, idx, resolver, interpreter, error, lox_rs>>

\* Lox::run, the match on self.interpreter.interpret(&statements): a
\* runtime error is written and ends the run with exit code 70
Lox_run_interpret ==
    /\ phase = "run"
    /\ LET interpreted(r) ==
               /\ interpreter' = r.m
               /\ phase' = CASE r.thrown.kind = "None" -> "done"
                             [] r.thrown.kind = "Error" -> "runtime_error"
                             [] r.thrown.kind = "Panic" -> "panic"
                             [] r.thrown.kind = "Fuel" -> "out_of_fuel"
               /\ error' = IF r.thrown.kind \in {"Error", "Panic"}
                           THEN Some(r.thrown.message) ELSE None
               /\ lox' = IF r.thrown.kind = "Error"
                         THEN [lox EXCEPT !.err_out = <<r.thrown.message>>,
                                          !.exit = Some(70)]
                         ELSE lox
       IN interpreted(interpret(interpreter, oks(lox.results)))
    /\ UNCHANGED <<program, idx, resolver, lox_rs>>

\* Scanner::scan_tokens over a text without lexical errors, unwrapped
Scanner_scan_tokens ==
    /\ phase = "scan"
    /\ LET scanned(rs) ==
               /\ errs(rs) = <<>>
               /\ lox' = [lox EXCEPT !.tokens = oks(rs)]
       IN scanned(scan_tokens(Scanner_new(LoxSource(program))))
    /\ phase' = "tokens"
    /\ UNCHANGED <<program, idx, resolver, interpreter, error, lox_rs>>

\* Parser::parse over the tokens scan_tokens returned
Parser_parse ==
    /\ phase = "tokens"
    /\ lox' = [lox EXCEPT !.results = parse(lox.tokens)]
    /\ phase' = "parsed"
    /\ UNCHANGED <<program, idx, resolver, interpreter, error, lox_rs>>

Next ==
    \/ ResolveStmts \/ Interpret \/ RunNextLine \/ lox_rs_Interpret
    \/ Lox_run_scan \/ Lox_run_parse \/ Lox_run_interpret
    \/ Scanner_scan_tokens \/ Parser_parse

Spec == Init /\ [][Next]_vars

(***************************************************************************)
(* Properties of the resolver and the depth-indexed lookups                *)
(***************************************************************************)
AcceptedByResolver == phase \in {"interpret", "done", "runtime_error", "panic"}

\* C1: in a program the resolver accepts, every get_at and assign_at made
\* with a recorded depth reaches a frame and finds the name in it: none ends
\* in 'Undefined variable' and none reaches the 'Impossible scope' branch.
C1_ResolvedLookupsFind ==
    AcceptedByResolver =>
        \A i \in DOMAIN interpreter.log :
            interpreter.log[i].ev \in {"get_at", "assign_at"} =>
                interpreter.log[i].status = "ok"

\* C2: every occurrence the resolver has resolved keeps its own depth in
\* the table the interpreter reads: recording the depth of another
\* occurrence never changes it.
C2_OccurrencesKeepTheirDepth ==
    \A i \in DOMAIN resolver.occ :
        interpreter.locals[resolver.occ[i].expr] = resolver.occ[i].depth

(***************************************************************************)
(* Properties of calls, closures and returns                               *)
(***************************************************************************)
IsPrefix(s, t) == Len(s) <= Len(t) /\ SubSeq(t, 1, Len(s)) = s

EventLog == interpreter.log

\* what a counter program prints when the closures c and d, made by two
\* calls of makeCounter, are called n1 times, n2 times and n1 times again
CounterOutput(q) ==
    [i \in 1..q.n1 |-> ToString(i)]
    \o [i \in 1..q.n2 |-> ToString(i)]
    \o [i \in 1..q.n1 |-> ToString(q.n1 + i)]

\* C3: a closure captures the environment of its declaration by reference:
\* successive calls of one counter closure yield 1, 2, 3, ..., and a closure
\* made by a second call of the enclosing function counts on its own.
C3_ClosureSharesItsEnvironment ==
    program.family = "counter" =>
        /\ phase \in {"resolve", "interpret", "done"}
        /\ IsPrefix(interpreter.writer, CounterOutput(program))
        /\ phase = "done" => interpreter.writer = CounterOutput(program)

C3_Witness ==
    /\ program.family = "counter" /\ program.n1 = 2 /\ program.n2 = 2
    /\ phase = "done"
    /\ interpreter.writer = <<"1", "2", "1", "2", "3", "4">>

\* the resolver reports an error over the program's statements
ResolverRejects ==
    resolve_stmts(Resolver_new(Interpreter_new.locals), Statements(program)).err.some

ReturnReachedInterpret ==
    /\ phase = "panic"
    /\ error = Some("return should never make it this far up the stack.")

\* C4 (as stated): a return statement ends the innermost active call with
\* the returned value (Nil when there is none): the next thing that happens
\* is the end of the call of the same depth, with that value; and for a
\* program the resolver accepts a Return never reaches interpret.
C4_ReturnEndsCallWithReturnedValue ==
    /\ ReturnReachedInterpret => ResolverRejects
    /\ \A i \in DOMAIN EventLog :
          (EventLog[i].ev = "return" /\ EventLog[i].depth > 0) =>
              /\ i < Len(EventLog)
              /\ EventLog[i + 1].ev = "call_end"
              /\ EventLog[i + 1].depth = EventLog[i].depth
              /\ EventLog[i + 1].thrown.kind = "None"
              /\ EventLog[i + 1].value = EventLog[i].value

\* C4 (amended): a return statement ends the innermost active call and no
\* further statement of that call runs; the call yields the returned value
\* (Nil when there is none), or the instance bound as this when the function
\* is an initializer; and for a program the resolver accepts a Return never
\* reaches interpret.
C4_ReturnEndsCall ==
    /\ ReturnReachedInterpret => ResolverRejects
    /\ \A i \in DOMAIN EventLog :
          (EventLog[i].ev = "return" /\ EventLog[i].depth > 0) =>
              /\ i < Len(EventLog)
              /\ EventLog[i + 1].ev = "call_end"
              /\ EventLog[i + 1].depth = EventLog[i].depth
              /\ EventLog[i + 1].thrown.kind = "None"
              /\ EventLog[i + 1].value =
                    IF EventLog[i + 1].is_init
                    THEN interpreter.envs[EventLog[i + 1].closure].values["this"]
                    ELSE EventLog[i].value

C4_Witness ==
    /\ program.family = "return" /\ program.w1 = "while" /\ program.w2 = "else"
    /\ program.value
    /\ phase = "done"
    /\ interpreter.writer = <<"7", "g">>
    /\ \E i \in DOMAIN EventLog : EventLog[i].ev = "return" /\ EventLog[i].depth = 2

(***************************************************************************)
(* Properties of classes and instances                                     *)
(***************************************************************************)
RECURSIVE FindMethod(_, _, _)
\* the method a class has under a name, its own or the nearest inherited
\* one up the superclass chain
FindMethod(classes, c, name) ==
    IF c = 0 THEN None
    ELSE IF name \in DOMAIN classes[c].fields THEN Some(classes[c].fields[name])
    ELSE FindMethod(classes, classes[c].superclass, name)

\* C5: calling a class creates an instance with no fields and, when the
\* class has an init method, its own or an inherited one, runs it bound to
\* the new instance with the call's arguments; the arity of the class is
\* the arity of that init, or 0 when there is none.
C5_ClassCallRunsInit ==
    /\ \A i \in DOMAIN EventLog :
          EventLog[i].ev = "class_call" =>
              /\ EventLog[i].fields = EmptyMap
              /\ EventLog[i].init
                    = FindMethod(interpreter.classes, EventLog[i].class, "init").some
    /\ \A i \in DOMAIN EventLog :
          (EventLog[i].ev = "call_expr" /\ EventLog[i].callee.t = "Class") =>
              LET init == FindMethod(interpreter.classes, EventLog[i].callee.ptr, "init")
              IN EventLog[i].arity
                    = IF init.some THEN Len(init.v.declaration.params) ELSE 0

\* the function value f bound to instance i: the same declaration over a
\* frame that holds this = i and encloses the closure of f
IsBound(value, f, i) ==
    /\ value.t = "Function"
    /\ value.declaration = f.declaration
    /\ value.is_init = f.is_init
    /\ interpreter.envs[value.closure].enclosing = f.closure
    /\ interpreter.envs[value.closure].values = [this |-> Instance(i)]

\* C6: a property get yields the instance's own field of that name when it
\* has one, else the method of that name found on the class or up its
\* superclass chain, bound to the instance, else the runtime error
\* 'Undefined property'.
C6_PropertyGet ==
    \A i \in DOMAIN EventLog :
        EventLog[i].ev = "get" =>
            LET e == EventLog[i]
                method == FindMethod(interpreter.classes,
                                     interpreter.instances[e.instance].class, e.name)
            IN IF e.name \in DOMAIN e.fields
               THEN e.thrown.kind = "None" /\ e.value = e.fields[e.name]
               ELSE IF method.some
               THEN e.thrown.kind = "None" /\ IsBound(e.value, method.v, e.instance)
               ELSE e.thrown = ThrownError("Undefined property " \o e.name \o ".")

\* C7: a call of an initializer that completes, through the class call or
\* directly on an instance, by falling off the end of the body or by a bare
\* return, yields the instance bound as this, never Nil or another value;
\* and the class call yields the instance it created.
C7_InitializerYieldsThis ==
    /\ \A i \in DOMAIN EventLog :
          (/\ EventLog[i].ev = "call_end"
           /\ EventLog[i].is_init
           /\ EventLog[i].outcome.kind \in {"None", "Return"}) =>
              /\ EventLog[i].thrown.kind = "None"
              /\ EventLog[i].value.t = "Instance"
              /\ EventLog[i].value = interpreter.envs[EventLog[i].closure].values["this"]
    /\ \A i, j \in DOMAIN EventLog :
          (/\ EventLog[i].ev = "class_call"
           /\ EventLog[j].ev = "call_expr" /\ EventLog[j].callee.t = "Class"
           /\ i < j /\ EventLog[j].thrown.kind = "None"
           /\ \A k \in (i + 1)..(j - 1) : EventLog[k].ev \notin {"class_call",
               "call_expr"}) =>
              EventLog[j].value = Instance(EventLog[i].instance)

C7_Witness ==
    /\ program.family = "class" /\ program.variant = "init_return"
    /\ phase = "done"
    /\ interpreter.writer = <<"7", Display(interpreter, FromLiteral(program.v))>>
    /\ \E i \in DOMAIN EventLog :
          /\ EventLog[i].ev = "call_end" /\ EventLog[i].is_init
          /\ EventLog[i].outcome.kind = "Return"
          /\ EventLog[i].value = Instance(1)

\* the last set of field name on instance i before position j of the log,
\* 0 when there is none
LastSet(i, name, j) ==
    LET sets == {k \in 1..(j - 1) :
                    /\ EventLog[k].ev = "set"
                    /\ EventLog[k].instance = i
                    /\ EventLog[k].name = name}
    IN IF sets = {} THEN 0 ELSE CHOOSE k \in sets : \A l \in sets : l <= k

\* C8: a field set on an instance is what every later get of that field on
\* the same instance yields, whichever handle reaches the instance, and an
\* instance on which the field was never set has no such field.
C8_SetIsSeenThroughEveryHandle ==
    /\ \A j \in DOMAIN EventLog :
          EventLog[j].ev = "get" =>
              LET e == EventLog[j]
                  k == LastSet(e.instance, e.name, j)
              IN IF k = 0
                 THEN e.name \notin DOMAIN e.fields
                 ELSE e.thrown.kind = "None" /\ e.value = EventLog[k].value
    /\ (program.family = "prop" /\ phase = "done") =>
          /\ program.probe = "other"
          /\ interpreter.writer = <<Display(interpreter, FromLiteral(program.v)), "other">>
    /\ (program.family = "prop" /\ program.probe = "fresh"
        /\ Len(interpreter.writer) = 1 /\ phase # "interpret") =>
          /\ phase = "runtime_error"
          /\ error = Some("Undefined property f.")

C8_Witness ==
    /\ program.family = "prop" /\ program.set = "closure" /\ program.get = "this"
    /\ program.probe = "other"
    /\ phase = "done"
    /\ interpreter.writer = <<Display(interpreter, FromLiteral(program.v)), "other">>

OperandError(kind, lt, rt) ==
    CASE kind \in ArithmeticOperators ->
            IF lt # "Number" \/ rt # "Number" THEN "Operands must be numbers." ELSE ""
      [] kind = "Plus" ->
            IF (lt = "Number" /\ rt = "Number") \/ (lt = "String" /\ rt = "String")
            THEN "" ELSE "Operands must be two numbers or two strings."
      [] OTHER -> ""

\* C10: for -, /, *, >, >=, <, <= an operand value that is not a Number
\* makes the evaluation the runtime error 'Operands must be numbers.', and
\* for + operands that are neither two Numbers nor two Strings make it
\* 'Operands must be two numbers or two strings.', in the current and in
\* the earlier version of the interpreter, whatever the operand kinds.
C10_OperandTypeErrors ==
    /\ \A i \in DOMAIN EventLog :
          EventLog[i].ev = "binary" =>
              LET e == EventLog[i]
                  message == OperandError(e.kind, e.left.t, e.right.t)
              IN message # "" => e.thrown = ThrownError(message)
    /\ (program.family = "binary" /\ phase \in {"done", "runtime_error"}) =>
          LET e == EventLog[Len(EventLog)]
              message == OperandError(program.op, e.left.t, e.right.t)
          IN /\ e.ev = "binary" /\ e.kind = program.op
             /\ message # "" => (phase = "runtime_error" /\ error = Some(message))
    /\ lox_rs.state \in {"done", "runtime_error"} =>
          LET message == OperandError(lox_rs.expr.op.kind,
                                      lox_rs.expr.left.value.t, lox_rs.expr.right.value.t)
          IN message # "" =>
                (lox_rs.state = "runtime_error" /\ lox_rs.error = Some(message)
                 /\ lox_rs.writer = <<>>)

C10_Witness ==
    /\ program.family = "binary" /\ program.op = "Plus"
    /\ program.left = "s" /\ program.right = "1"
    /\ phase = "runtime_error"
    /\ error = Some("Operands must be two numbers or two strings.")
    /\ lox_rs.state = "runtime_error"
    /\ lox_rs.error = Some("Operands must be two numbers or two strings.")

(***************************************************************************)
(* Properties of runtime errors and of the global fallback                 *)
(***************************************************************************)
\* what an error program has written when its statement raises: the value
\* of a, and "dead" and "after" never
Written(q) == <<Display(interpreter, FromLiteral(q.v))>>

\* C11: when a statement raises a runtime error interpret returns that
\* error, no later statement runs and nothing more is written; the output
\* written before stays and the current environment is the top-level one
\* again, so that a later interpret call on the same interpreter sees the
\* bindings defined before the error.
C11_ErrorAbortsAndLaterCallSeesBindings ==
    /\ phase = "runtime_error" =>
          /\ error.some
          /\ interpreter.environment = TopLevel
    /\ (program.family = "error" /\ program.fail # "none") =>
          /\ phase \in {"resolve", "interpret", "runtime_error", "next_done"}
          /\ IsPrefix(interpreter.writer, Written(program) \o Written(program))
          /\ phase = "runtime_error" =>
                /\ interpreter.writer = Written(program)
                /\ "a" \in DOMAIN interpreter.envs[TopLevel].values
          /\ phase = "next_done" =>
                interpreter.writer = Written(program) \o Written(program)

\* what a global program prints
GlobalOutput(q) ==
    CASE q.variant = "class_later" -> <<"K instance">>
      [] q.variant = "native" -> <<"<native fn>">>
      [] OTHER -> <<Display(interpreter, FromLiteral(q.v))>>

\* C12: a variable reference with no recorded depth is looked up by name at
\* run time and finds every binding a top-level var, fun or class
\* declaration has defined by the time the reference executes; a function
\* body may name a top-level function, variable or class declared later in
\* the source and be called after that declaration ran.
C12_GlobalFallbackFindsTopLevel ==
    /\ \A i \in DOMAIN EventLog :
          (EventLog[i].ev = "get_global" /\ EventLog[i].name \in DOMAIN EventLog[i].top) =>
              /\ EventLog[i].ok
              /\ EventLog[i].value = EventLog[i].top[EventLog[i].name]
    /\ (program.family = "global" /\ program.variant # "never") =>
          /\ phase \in {"resolve", "interpret", "done"}
          /\ phase = "done" => interpreter.writer = GlobalOutput(program)

(***************************************************************************)
(* Environment::assign on its own: environments are created, filled and    *)
(* assigned through in any order.                                          *)
(***************************************************************************)
\* the most environments a run of EnvSpec creates
MaxEnvs == 4

\* the names EnvSpec defines, and one more it only assigns
EnvNames == {"a", "b"}

EnvInit ==
    /\ program = [family |-> "env", e |-> 0, name |-> Ident("a", 1), value |-> Nil,
                  before |-> <<>>]
    /\ phase = "env"
    /\ idx = 0
    /\ interpreter = Interpreter_new
    /\ resolver = Resolver_new(Interpreter_new.locals)
    /\ error = None
    /\ lox_rs = lox_rs_new(program)
    /\ lox = Lox_new

\* Environment::from over any environment there is
EnvFrom ==
    /\ phase = "env"
    /\ Len(interpreter.envs) < MaxEnvs
    /\ \E e \in DOMAIN interpreter.envs :
          interpreter' = AllocEnv(interpreter, Environment_from(e))
    /\ UNCHANGED <<program, phase, idx, resolver, error, lox_rs, lox>>

\* Environment::define in any environment there is
EnvDefine ==
    /\ phase = "env"
    /\ \E e \in DOMAIN interpreter.envs, name \in EnvNames :
          interpreter' = [interpreter EXCEPT
                             !.envs[e] = Environment_define(@, name, Number(1))]
    /\ UNCHANGED <<program, phase, idx, resolver, error, lox_rs, lox>>

\* Environment::assign from any environment there is; program keeps the call
\* and the environments it found
EnvAssign ==
    /\ phase = "env"
    /\ \E e \in DOMAIN interpreter.envs, name \in EnvNames \cup {"c"},
          value \in {Number(1), Number(2)} :
          LET assigned(w) ==
                  /\ interpreter' = [interpreter EXCEPT !.envs = w.envs]
                  /\ error' = IF w.ok THEN None ELSE Some(w.message)
                  /\ program' = [program EXCEPT !.e = e, !.name = Ident(name, 1),
                                                !.value = value,
                                                !.before = interpreter.envs]
          IN assigned(Environment_assign(interpreter.envs, e, Ident(name, 1), value))
    /\ phase' = "assigned"
    /\ UNCHANGED <<idx, resolver, lox_rs, lox>>

EnvNext == EnvFrom \/ EnvDefine \/ EnvAssign

EnvSpec == EnvInit /\ [][EnvNext]_vars

\* the environments of the chain that starts at e, innermost first
RECURSIVE Chain(_, _)
Chain(envs, e) == IF e = 0 THEN <<>> ELSE <<e>> \o Chain(envs, envs[e].enclosing)

\* the positions in the chain from e whose environment holds name
Holders(envs, e, name) ==
    {i \in DOMAIN Chain(envs, e) : name \in DOMAIN envs[Chain(envs, e)[i]].values}

\* the least member of a non-empty set of naturals
Least(S) == CHOOSE i \in S : \A j \in S : i <= j

\* C13: Environment::assign(name, v) replaces the value in the innermost
\* frame of the chain that holds name and changes no other frame; when no
\* frame of the chain holds name it fails with 'Undefined variable' and
\* leaves every frame unchanged, never creating a binding.
C13_AssignReplacesInnermost ==
    phase = "assigned" =>
        LET before == program.before
            held == Holders(before, program.e, program.name.lexeme)
        IN IF held = {}
           THEN /\ error = Some("Undefined variable: " \o program.name.lexeme)
                /\ interpreter.envs = before
           ELSE /\ error = None
                /\ interpreter.envs =
                      [before EXCEPT ![Chain(before, program.e)[Least(held)]]
                                         .values[program.name.lexeme] = program.value]

\* an assignment from a frame that does not hold the name, through a chain
\* in which two enclosing frames hold it with another value
C13_Witness ==
    /\ phase = "assigned"
    /\ program.value = Number(2)
    /\ Cardinality(Holders(program.before, program.e, program.name.lexeme)) = 2
    /\ Least(Holders(program.before, program.e, program.name.lexeme)) = 2
    /\ error = None
    /\ interpreter.envs # program.before

(***************************************************************************)
(* Properties of the static errors                                         *)
(***************************************************************************)
\* nothing of the program has run: no statement was executed, nothing was
\* written and the environments are those of Interpreter::new
NothingExecuted ==
    /\ interpreter.log = <<>>
    /\ interpreter.writer = <<>>
    /\ interpreter.envs = Interpreter_new.envs

Declared(kind, line) ==
    CASE kind \in {"var", "param"} -> ToString(line)
      [] kind = "fun" -> "<fn a>"
      [] kind = "class" -> "a instance"

\* the frames in which the reads of a on a line found it
FramesRead(line) ==
    {EventLog[i].frame : i \in {j \in DOMAIN EventLog :
        /\ EventLog[j].ev = "get_at"
        /\ EventLog[j].expr = Var("a", line)
        /\ EventLog[j].status = "ok"}}

\* C15: the resolver rejects a declaration (a var, a function name, a class
\* name, a parameter) exactly when the innermost scope frame already has an
\* entry for that name; declaring a name that only an enclosing frame holds
\* is accepted and shadows the outer entry for the rest of the inner scope.
C15_DuplicateOnlyInInnermostFrame ==
    /\ (phase = "static_error"
           /\ error = Some("A variable with this name already exists in this scope.")) =>
          (program.family = "declare" /\ program.rel = "same")
    /\ program.family = "declare" =>
          /\ program.rel = "same" =>
                /\ phase \in {"resolve", "static_error"}
                /\ phase = "static_error" =>
                      /\ error = Some("A variable with this name already exists in this scope.")
                      /\ "a" \in DOMAIN resolver.scopes[Len(resolver.scopes)]
          /\ program.rel # "same" => phase \in {"resolve", "interpret", "done"}
          /\ (program.rel = "other" /\ phase = "done") =>
                interpreter.writer = <<Declared(program.first, 1)>>
          /\ (program.rel = "inner" /\ phase = "done") =>
                /\ interpreter.writer =
                      <<Declared(program.second, 5), Declared(program.first, 1)>>
                /\ \E inner \in FramesRead(5), outer \in FramesRead(6) :
                      /\ FramesRead(5) = {inner}
                      /\ FramesRead(6) = {outer}
                      /\ inner # outer

\* a function declared in a block inside the block that declares the var a:
\* accepted, and the two reads of a find two frames
C15_Witness ==
    /\ program.family = "declare" /\ program.rel = "inner" /\ program.at = "block"
    /\ program.first = "var" /\ program.second = "fun"
    /\ phase = "done"
    /\ interpreter.writer = <<"<fn a>", "1">>
    /\ Cardinality(FramesRead(5) \cup FramesRead(6)) = 2

\* C16: the resolver rejects a return statement exactly when the innermost
\* enclosing function declaration is none (top-level code) or is an init
\* method and the return carries an explicit value; a bare `return;` in an
\* init method and a `return v;` in a function nested inside an init method
\* are accepted, and after a nested function is resolved the enclosing
\* function kind is in force again.
C16_ReturnRules ==
    program.family = "returns" =>
        LET top == program.place \in {"top", "block", "after_fun"}
            init == program.place \in {"init", "after_fun_in_init"}
        IN /\ top =>
                 /\ phase \in {"resolve", "static_error"}
                 /\ phase = "static_error" =>
                       error = Some("Can't return from top-level code.")
           /\ (init /\ program.value) =>
                 /\ phase \in {"resolve", "static_error"}
                 /\ phase = "static_error" =>
                       error = Some("Cannot return a value from an initialiser.")
           /\ (~top /\ ~(init /\ program.value)) => phase # "static_error"

\* C17: the resolver rejects every `this` expression and every `super`
\* expression that is not inside a class declaration, at top level and
\* inside plain functions, and accepts them inside a method, also inside a
\* function nested in a method; after a class declaration is resolved the
\* enclosing class kind is in force again.
C17_ThisAndSuperOnlyInClass ==
    program.family = "thissuper" =>
        /\ program.place \in OutsideClass => phase \in {"resolve", "static_error"}
        /\ program.place \in InsideClass => phase \in {"resolve", "interpret", "done"}
        /\ (phase = "static_error" /\ program.keyword = "this") =>
              error = Some("Can't use 'this' outside of a class.")

(***************************************************************************)
(* Properties of the run as a whole                                        *)
(***************************************************************************)
\* the scan of the program's text reports a lexical error
LexicalErrors ==
    /\ program.family = "lox"
    /\ errs(collect(Scanner_new(LoxSource(program)), <<>>)) # <<>>

\* the parser has been given tokens
ParserStarted == phase \in {"parse", "syntax_error", "run", "parsed"} \/ lox.results # <<>>

ErrorsStopTheRun ==
    /\ LexicalErrors => ~ParserStarted
    /\ phase \in {"lexical_error", "syntax_error", "static_error"} => NothingExecuted
    /\ ~NothingExecuted => ~ResolverRejects

\* the first statement executes in a step taken after resolve_stmts is done
ExecutionFollowsResolution ==
    (NothingExecuted /\ ~NothingExecuted') => phase = "interpret"

\* C18: in every run the phases are gated in order: the parser is not
\* started when the scan produced a lexical error, the resolver runs over
\* the whole program before its first statement executes, and no statement
\* executes when the scan, the parse or the resolver reported any error.
C18_PhasesGated == []ErrorsStopTheRun /\ [][ExecutionFollowsResolution]_vars

\* the class with init(a) { this.f = a; } and m() { return this.f; }, followed
\* by print C(v).m();
CakeTexts == {"cake_number", "cake_string"}

\* C19: running the whole pipeline (scan, parse, resolve, interpret) on a
\* class whose init method stores its argument in a field with
\* `this.f = arg;` and whose method returns `this.f`, followed by
\* `print C(v).m();`, reports no error in any phase and writes v to the sink.
C19_CakePipelineWritesArgument ==
    (program.family = "lox" /\ program.text \in CakeTexts
        /\ phase \in {"scan", "lexical_error", "parse", "syntax_error", "run",
                       "runtime_error", "panic", "done"}) =>
        /\ phase \in {"scan", "parse", "run", "done"}
        /\ lox.err_out = <<>>
        /\ lox.exit = None
        /\ phase = "done" =>
              interpreter.writer = <<IF program.text = "cake_number" THEN "1" ELSE "s">>

\* C20: given the token sequence of a syntactically valid program terminated
\* by the end-of-file token, as Scanner::scan_tokens returns it,
\* Parser::parse returns one Ok statement per top-level statement and no
\* error: the end-of-file token ends parsing and is never consumed as the
\* start of a statement or expression.
C20_EndOfFileEndsParsing ==
    (program.family = "lox" /\ program.text \in ValidTexts \ CakeTexts
        /\ phase = "parsed") =>
        /\ lox.tokens[Len(lox.tokens)].kind = "EndOfFile"
        /\ errs(lox.results) = <<>>
        /\ Len(lox.results) = TopLevelStatements(program)

(***************************************************************************)
(* The parsers on their own: Parser::expression (Parser::parse of the      *)
(* earlier version) over token sequences.                                  *)
(***************************************************************************)
\* the most binary operators of a token sequence
MaxOperators == 3

\* literal operator literal ... literal: the literals are the numbers 1, 2, ..
\* in order, q.ops the kinds of the operators between them
ExpressionTokens(q) ==
    [i \in 1..(2 * Len(q.ops) + 1) |->
        IF i % 2 = 1
        THEN TokenOf("Number", ToString((i + 1) \div 2), 1, (i + 1) \div 2)
        ELSE Token(q.ops[i \div 2], Lexeme(q.ops[i \div 2]), 1)]

\* the texts of the assignment programs: <lhs> = c; or <lhs> =\n<inner> = c;
\* so that the first `=` is on line 1 and the second on line 2
LhsText(lhs) ==
    CASE lhs = "a" -> <<"a">>
      [] lhs = "1" -> <<"1">>
      [] lhs = "s" -> <<"\"", "s", "\"">>
      [] lhs = "nil" -> <<"n", "i", "l">>
      [] lhs = "a.b" -> <<"a", ".", "b">>
      [] lhs = "(a)" -> <<"(", "a", ")">>
      [] lhs = "f()" -> <<"f", "(", ")">>
      [] lhs = "!a" -> <<"!", "a">>
      [] lhs = "-a" -> <<"-", "a">>
      [] lhs = "a + b" -> <<"a", " ", "+", " ", "b">>
      [] lhs = "a < b" -> <<"a", " ", "<", " ", "b">>
      [] lhs = "a == b" -> <<"a", " ", "=", "=", " ", "b">>
      [] lhs = "a and b" -> <<"a", " ", "a", "n", "d", " ", "b">>
      [] lhs = "a or b" -> <<"a", " ", "o", "r", " ", "b">>
      [] lhs = "b" -> <<"b">>
      [] lhs = "b.c" -> <<"b", ".", "c">>

AssignmentText(q) ==
    LhsText(q.lhs) \o <<" ", "=">>
    \o (IF q.inner = "" THEN <<>> ELSE <<"\n">> \o LhsText(q.inner) \o <<" ", "=">>)
    \o <<" ", "c", ";">>

LhsShapes ==
    {"a", "1", "s", "nil", "a.b", "(a)", "f()", "!a", "-a", "a + b", "a < b", "a == b",
     "a and b", "a or b"}

AssignmentPrograms ==
    [family : {"assignment"}, lhs : LhsShapes, inner : {"", "b", "b.c"}]

\* the texts of the recovery programs: a statement with a syntax error
\* followed by three well-formed ones, the first two inside the same block
\* when q.nested:
\*   <bad> print 2; print 3; print 4;      { <bad> print 2; print 3; } print 4;
BadText(bad) ==
    CASE bad = "var 1 = 0;" -> <<"v", "a", "r", " ", "1", " ", "=", " ", "0", ";">>
      [] bad = "1 + ;" -> <<"1", " ", "+", " ", ";">>
      [] bad = "print ;" -> <<"p", "r", "i", "n", "t", " ", ";">>
      [] bad = "print (1;" -> <<"p", "r", "i", "n", "t", " ", "(", "1", ";">>
      [] bad = "print 1" -> <<"p", "r", "i", "n", "t", " ", "1">>
      [] bad = "1 = 1;" -> <<"1", " ", "=", " ", "1", ";">>
      [] bad = "if 1) 1;" -> <<"i", "f", " ", "1", ")", " ", "1", ";">>

RecoveryText(q) ==
    (IF q.nested THEN <<"{", " ">> ELSE <<>>)
    \o BadText(q.bad) \o <<" ", "p", "r", "i", "n", "t", " ", "2", ";", " ", "p", "r", "i", "n", "t", " ", "3", ";">>
    \o (IF q.nested THEN <<" ", "}">> ELSE <<>>)
    \o <<" ", "p", "r", "i", "n", "t", " ", "4", ";">>

BadStatements ==
    {"var 1 = 0;", "1 + ;", "print ;", "print (1;", "print 1", "1 = 1;", "if 1) 1;"}

RecoveryPrograms == [family : {"recovery"}, bad : BadStatements, nested : BOOLEAN]

\* the tokens Lox::run hands to the parser for a text
Tokens(text) == oks(collect(Scanner_new(text), <<>>))

ExpressionPrograms ==
    {[family |-> "expression", ops |-> ops] :
        ops \in UNION {[1..n -> BinaryOperators] : n \in 0..MaxOperators}}

\* class A { m(a, b) { f(1, 2); } } { print (1; }
\* a class with a method of two parameters whose body calls with two
\* arguments, and a block with an unclosed grouping
DamagedText ==
    <<"c", "l", "a", "s", "s", " ", "A", " ", "{", " ", "m", "(", "a", ",", " ", "b", ")", " ", "{", " ", "f", "(", "1", ",", " ", "2", ")", ";", " ", "}", " ", "}", " ", "{", " ", "p", "r", "i", "n", "t", " ", "(", "1", ";", " ", "}">>

\* the tokens of DamagedText cut after q.keep tokens, without the token at
\* q.drop, and with the EndOfFile token of scan_tokens when q.eof
DamagedTokens(q) ==
    LET all == Tokens(DamagedText)
        kept == SubSeq(all, 1, q.keep)
        left == IF q.drop \in DOMAIN kept
                THEN SubSeq(kept, 1, q.drop - 1) \o SubSeq(kept, q.drop + 1, Len(kept))
                ELSE kept
    IN IF q.eof THEN Append(left, Token("EndOfFile", "", 1)) ELSE left

DamagedPrograms ==
    {[family |-> "damaged", keep |-> k, drop |-> d, eof |-> e] :
        k \in 0..Len(Tokens(DamagedText)), d \in 0..Len(Tokens(DamagedText)), e \in BOOLEAN}

ParseTokens(q) ==
    CASE q.family = "expression" -> ExpressionTokens(q)
      [] q.family = "assignment" -> Tokens(AssignmentText(q))
      [] q.family = "recovery" -> Tokens(RecoveryText(q))
      [] q.family = "damaged" -> DamagedTokens(q)

ParseInit ==
    /\ program \in ExpressionPrograms \cup AssignmentPrograms \cup RecoveryPrograms
                 \cup DamagedPrograms
    /\ phase = "tokens"
    /\ idx = 0
    /\ interpreter = Interpreter_new
    /\ resolver = Resolver_new(Interpreter_new.locals)
    /\ error = None
    /\ lox_rs = lox_rs_new(program)
    /\ lox = [Lox_new EXCEPT !.tokens = ParseTokens(program)]

\* Parser::new(tokens).expression()
Parser_expression ==
    /\ phase = "tokens"
    /\ lox' = [lox EXCEPT !.results = <<expression(lox.tokens)>>]
    /\ phase' = "expression"
    /\ UNCHANGED <<program, idx, resolver, interpreter, error, lox_rs>>

\* Parser::new(tokens).parse() of the earlier version
lox_rs_Parser_parse ==
    /\ phase = "tokens"
    /\ lox' = [lox EXCEPT !.results = <<lox_rs_parse(lox.tokens)>>]
    /\ phase' = "lox_rs_parse"
    /\ UNCHANGED <<program, idx, resolver, interpreter, error, lox_rs>>

ParseNext == Parser_expression \/ lox_rs_Parser_parse \/ Parser_parse

ParseSpec == ParseInit /\ [][ParseNext]_vars

\* the precedence level of a binary operator, lowest first
Level(kind) ==
    CASE kind \in {"BangEqual", "EqualEqual"} -> 1
      [] kind \in {"Greater", "GreaterEqual", "Less", "LessEqual"} -> 2
      [] kind \in {"Minus", "Plus"} -> 3
      [] kind \in {"Star", "Slash"} -> 4

\* the tree of literal operator literal ...: the root is the last operator of
\* the lowest level there is, so that higher levels bind tighter and one
\* level associates to the left
RECURSIVE Tree(_)
Tree(ts) ==
    IF Len(ts) = 1 THEN new_literal(LitNumber(ts[1].literal))
    ELSE LET ops == {i \in DOMAIN ts : i % 2 = 0}
             lowest == CHOOSE l \in 1..4 :
                           /\ \E i \in ops : Level(ts[i].kind) = l
                           /\ \A i \in ops : Level(ts[i].kind) >= l
             root == CHOOSE i \in ops :
                         /\ Level(ts[i].kind) = lowest
                         /\ \A j \in ops : Level(ts[j].kind) = lowest => j <= i
         IN new_binary(Tree(SubSeq(ts, 1, root - 1)), ts[root],
                       Tree(SubSeq(ts, root + 1, Len(ts))))

\* C21: for every token sequence made of literals and the binary operators,
\* the expression parser returns the tree in which an operator of a higher
\* level (factor over term over comparison over equality) binds tighter and
\* operators of one level associate to the left, where the equality level
\* accepts exactly `!=` and `==`; this holds for both parser versions.
C21_PrecedenceAndAssociativity ==
    (program.family = "expression" /\ phase \in {"expression", "lox_rs_parse"}) =>
        lox.results[1] = Parsed(<<>>, Tree(lox.tokens))

\* the `=` of line `line`
EqualToken(line) == Token("Equal", "=", line)

\* C22: `a = b = c` parses as Assign(a, Assign(b, c)); when the expression
\* parsed to the left of `=` is anything other than a bare variable
\* reference, the parser returns a syntax error whose token is that `=`, and
\* produces no expression node for the statement.
C22_AssignmentTargets ==
    (program.family = "assignment" /\ phase = "parsed") =>
        LET invalid(line) ==
                <<[ok |-> FALSE,
                   v |-> syntactic(EqualToken(line), "Invalid assignment target.")]>>
            valid(e) == <<[ok |-> TRUE, v |-> new_expression(e)]>>
        IN lox.results =
              CASE program.lhs # "a" -> invalid(1)
                [] program.inner = "" -> valid(new_assign(Ident("a", 1), Var("c", 1)))
                [] program.inner = "b" ->
                      valid(new_assign(Ident("a", 1),
                                       new_assign(Ident("b", 2), Var("c", 2))))
                [] program.inner = "b.c" -> invalid(2)

C22_Witness ==
    /\ program.family = "assignment" /\ phase = "parsed"
    /\ program.lhs = "a.b" /\ program.inner = "b"
    /\ ~lox.results[1].ok

\* the number printed by the first statement that begins at a statement
\* boundary after the error: a missing `;` is reported at the `print` of
\* print 2, whose own `;` is then the boundary
Survivor(q) == IF q.bad = "print 1" THEN 3 ELSE 2

\* C23: after a parse error the parser discards tokens only up to the first
\* statement boundary that follows the error, a consumed `;` or a next token
\* among class/fun/var/for/if/while/print/return, so that a well-formed
\* statement beginning at that boundary is parsed and returned as Ok; this
\* also holds when the error occurred in a statement nested inside a block.
C23_RecoveryAtFirstBoundary ==
    (program.family = "recovery" /\ phase = "parsed") =>
        /\ ~lox.results[1].ok
        /\ \A n \in Survivor(program)..4 :
              \E i \in DOMAIN lox.results :
                  lox.results[i] = [ok |-> TRUE, v |-> new_print(new_literal(LitNumber(n)))]

(***************************************************************************)
(* The scanners over every text of a small alphabet: a letter, a digit, a  *)
(* blank, a newline, the slash of a comment, the quote of a string and a   *)
(* character no token starts with.                                         *)
(***************************************************************************)
MaxChars == 4

ScanAlphabet == {"a", "1", " ", "\n", "/", "\"", "@"}

ScanPrograms ==
    {[family |-> "scan", text |-> t] :
        t \in UNION {[1..n -> ScanAlphabet] : n \in 0..MaxChars}}

ScanInit ==
    /\ program \in ScanPrograms
    /\ phase = "scan"
    /\ idx = 0
    /\ interpreter = Interpreter_new
    /\ resolver = Resolver_new(Interpreter_new.locals)
    /\ error = None
    /\ lox_rs = lox_rs_new(program)
    /\ lox = Lox_new

\* Scanner::new(text) iterated until next returns None
Scanner_collect ==
    /\ phase = "scan"
    /\ lox' = [lox EXCEPT !.results = collect(Scanner_new(program.text), <<>>)]
    /\ phase' = "collected"
    /\ UNCHANGED <<program, idx, resolver, interpreter, error, lox_rs>>

\* Scanner::new(text).scan_tokens(), the Vec<Result<Token>> as returned
Scanner_scan_tokens_vec ==
    /\ phase = "scan"
    /\ lox' = [lox EXCEPT !.results = scan_tokens(Scanner_new(program.text))]
    /\ phase' = "scan_tokens"
    /\ UNCHANGED <<program, idx, resolver, interpreter, error, lox_rs>>

\* Scanner::new(text).scan_tokens() of the earlier version
lox_rs_Scanner_scan_tokens ==
    /\ phase = "scan"
    /\ LET scanned(r) ==
               /\ lox' = [lox EXCEPT !.results = r.results]
               /\ phase' = IF r.returns THEN "lox_rs_scan_tokens" ELSE "lox_rs_no_return"
       IN scanned(lox_rs_scan_tokens(Scanner_new(program.text)))
    /\ UNCHANGED <<program, idx, resolver, interpreter, error, lox_rs>>

ScanNext == Scanner_collect \/ Scanner_scan_tokens_vec \/ lox_rs_Scanner_scan_tokens

ScanSpec == ScanInit /\ [][ScanNext]_vars

\* C24: for every finite source text, iterating the scanner yields finitely
\* many items and then next returns None, also when the text is empty or
\* ends with whitespace, a newline or a comment; this holds for the scanner
\* of each version.
C24_IterationEnds ==
    program.family = "scan" => phase # "lox_rs_no_return"

\* the part of C24 about the later scanner: its iteration ends on every text
C24_LaterIterationEnds ==
    (program.family = "scan" /\ phase = "collected") =>
        Len(lox.results) <= Len(program.text)

\* the number of newline characters among chars
Newlines(chars) == Cardinality({i \in DOMAIN chars : chars[i] = "\n"})

\* for each item the scanner yields, the number of characters of text it has
\* consumed by then: the position of the item's last character
RECURSIVE Ends(_, _, _)
Ends(sc, text, ends) ==
    LET yielded(n) ==
            IF ~n.some THEN ends
            ELSE Ends(n.sc, text, Append(ends, Len(text) - Len(n.sc.src)))
    IN yielded(Scanner_next(sc))

\* C25: every token carries as its line 1 plus the number of newlines of the
\* source before the token's last character, newlines ending comments and
\* newlines inside string literals included; a lexical error carries the
\* line current where it is detected, which for an unterminated string is
\* the last line of the source.
C25_LinesCountNewlines ==
    (program.family = "scan" /\ phase = "collected") =>
        LET ends == Ends(Scanner_new(program.text), program.text, <<>>) IN
        \A i \in DOMAIN lox.results :
            lox.results[i].v.line =
                IF /\ ~lox.results[i].ok
                   /\ lox.results[i].v.message = "Unterminated string literal."
                THEN 1 + Newlines(program.text)
                ELSE 1 + Newlines(SubSeq(program.text, 1, ends[i] - 1))

\* a string literal over two lines, and a token on the line after a comment
C25_Witness ==
    /\ program.family = "scan" /\ phase = "collected"
    /\ \/ /\ program.text = <<"\"", "\n", "\"", "a">>
          /\ lox.results[1].v.kind = "String" /\ lox.results[1].v.line = 2
          /\ lox.results[2].v.line = 2
       \/ /\ program.text = <<"/", "/", "\n", "a">>
          /\ Len(lox.results) = 1 /\ lox.results[1].v.line = 2

\* the positions of text that lie outside string literals and comments,
\* read from position i on in mode "code", "string" or "comment"
RECURSIVE Outside(_, _, _, _)
Outside(text, i, mode, found) ==
    IF i > Len(text) THEN found
    ELSE CASE mode = "string" ->
                  Outside(text, i + 1, IF text[i] = "\"" THEN "code" ELSE "string", found)
           [] mode = "comment" ->
                  IF text[i] = "\n" THEN Outside(text, i + 1, "code", found \cup {i})
                  ELSE Outside(text, i + 1, "comment", found)
           [] mode = "code" ->
                  IF text[i] = "\"" THEN Outside(text, i + 1, "string", found)
                  ELSE IF text[i] = "/" /\ i < Len(text) /\ text[i + 1] = "/"
                  THEN Outside(text, i + 2, "comment", found)
                  ELSE Outside(text, i + 1, "code", found \cup {i})

\* the items that report an unexpected character
Unexpected(results) ==
    {j \in DOMAIN results :
        ~results[j].ok /\ results[j].v.message = "Unexpected character '@'"}

\* C26: an unexpected character yields exactly one error item and consumes
\* exactly that character: the items produced after it are those the scanner
\* produces for the rest of the text, with lexemes that hold no character of
\* the bad token, of whitespace or of comments, so a text with k unexpected
\* characters outside strings and comments yields k errors.
C26_UnexpectedCharacterIsOneError ==
    (program.family = "scan" /\ phase = "collected") =>
        LET text == program.text
            ends == Ends(Scanner_new(text), text, <<>>)
            bad == Unexpected(lox.results)
        IN /\ \A j, k \in bad : ends[j] = ends[k] => j = k
           /\ {ends[j] : j \in bad} = {i \in Outside(text, 1, "code", {}) : text[i] = "@"}
           /\ \A j \in bad :
                 /\ SubSeq(lox.results, j + 1, Len(lox.results)) =
                        collect([src |-> SubSeq(text, ends[j] + 1, Len(text)),
                                 lexeme_buffer |-> <<>>,
                                 line |-> lox.results[j].v.line], <<>>)
                 /\ \A i \in (j + 1)..Len(lox.results) :
                        lox.results[i].ok =>
                            \E a \in 1..ends[i] :
                                /\ lox.results[i].v.lexeme = Text(SubSeq(text, a, ends[i]))
                                /\ text[a] \notin {" ", "\n", "@"}
                                /\ text[a] = "/" => a = ends[i]

\* two unexpected characters with a blank, a comment or a token between
C26_Witness ==
    /\ program.family = "scan" /\ phase = "collected"
    /\ program.text \in {<<"@", " ", "@", "a">>, <<"@", "/", "/", "@">>,
                         <<"@", "1", "@", "a">>}
    /\ Unexpected(lox.results) # {}
    /\ lox.results[Len(lox.results)].ok =>
           lox.results[Len(lox.results)].v.lexeme = "a"

\* scan_tokens has returned
ScanTokensReturned ==
    program.family = "scan" /\ phase \in {"scan_tokens", "lox_rs_scan_tokens"}

\* the end-of-file token is the last item and the only one of its kind
EndOfFileIsLast ==
    ScanTokensReturned =>
        /\ lox.results # <<>>
        /\ lox.results[Len(lox.results)].ok
        /\ lox.results[Len(lox.results)].v.kind = "EndOfFile"
        /\ \A i \in 1..(Len(lox.results) - 1) :
              lox.results[i].ok => lox.results[i].v.kind # "EndOfFile"

\* C30: the end-of-file token that scan_tokens appends is the last item of
\* the result, is the only end-of-file token in it, and carries the line on
\* which the source text ends, 1 plus the number of newlines in the source.
C30_EndOfFileOnLastLine ==
    /\ EndOfFileIsLast
    /\ ScanTokensReturned =>
           lox.results[Len(lox.results)].v.line = 1 + Newlines(program.text)

\* the number of links from environment e out to its ancestor a
RECURSIVE Links(_, _, _, _)
Links(envs, e, a, n) ==
    IF e = a \/ e = 0 THEN n ELSE Links(envs, envs[e].enclosing, a, n + 1)

\* the environment in which class B was declared
DefiningEnvironment ==
    CHOOSE e \in DOMAIN interpreter.envs : "B" \in DOMAIN interpreter.envs[e].values

\* the reads of t in the body of method get
ReadsInMethod ==
    {i \in DOMAIN EventLog :
        EventLog[i].ev = "get_at" /\ EventLog[i].expr = Var("t", 5)}

\* C27: at every point inside a method body, the number of scope frames the
\* resolver has open between the method's parameter frame and the frame in
\* which the class is declared equals the number of environments between the
\* method's call environment and the class's defining environment, for a
\* class without a superclass and for a class with one.  The point is
\* program.depth blocks inside the body; the resolver's count is read off
\* the depth it recorded for t, a variable of the class's frame.
C27_ScopesMatchEnvironments ==
    program.family = "layout" =>
        \A i \in ReadsInMethod :
            EventLog[i].distance - (program.depth + 1) =
                Links(interpreter.envs, EventLog[i].from, DefiningEnvironment, 0)
                    - (program.depth + 1)

\* the part of C27 about a class without a superclass
C27_WithoutSuperclass ==
    (program.family = "layout" /\ ~program.superclass) => C27_ScopesMatchEnvironments

C27_WithoutSuperclassReached ==
    /\ program.family = "layout" /\ ~program.superclass /\ program.depth = MaxNest
    /\ ReadsInMethod # {}
    /\ phase = "done"

\* the returns of execute_block
BlockLog == interpreter.blocks

BlockReturns == DOMAIN BlockLog

\* the interpreter is between two top-level statements, or past the last
BetweenStatements ==
    phase \in {"interpret", "done", "runtime_error", "next_done", "next_runtime_error"}

\* C28: when execute_block returns, normally, with a Return signal or with a
\* runtime error, the interpreter's current environment is the environment
\* that was current when execute_block was entered, for blocks and for
\* function and method calls at every nesting depth; so after any sequence of
\* statements at top level the current environment is the top-level one.
C28_BlockRestoresEnvironment ==
    /\ \A i \in BlockReturns : BlockLog[i].environment = BlockLog[i].old_env
    /\ BetweenStatements => interpreter.environment = TopLevel

\* a runtime error raised in a block of a method body: it leaves that block,
\* the call and the block around the call, and the run is back at top level
C28_Witness ==
    /\ phase = "runtime_error"
    /\ interpreter.environment = TopLevel
    /\ \E i, j, k \in BlockReturns :
          /\ i < j /\ j < k
          /\ BlockLog[i].thrown = "Error" /\ BlockLog[i].depth = 1
          /\ BlockLog[j].thrown = "Error" /\ BlockLog[j].depth = 1
          /\ BlockLog[k].thrown = "Error" /\ BlockLog[k].depth = 0

\* the tokens a call that was given p and left rest has consumed
Consumed(p, rest) == Len(p) - Len(rest)

\* the progress of the parser from p, a point of the token sequence: the
\* declaration it returns has consumed a token, synchronise has consumed one,
\* and a block, a class body, a parameter list and an argument list that
\* were parsed have made fewer iterations than they have consumed tokens
Progress(p) ==
    LET d == self("declaration", <<p>>)
        b == self("block", <<p>>)
        c == self("class_declaration", <<p>>)
        f == self("function", <<p, "method">>)
        a == self("finish_call", <<p, Var("f", 1)>>)
    IN /\ d.some /\ Consumed(p, d.p) >= 1
       /\ Consumed(p, synchronise(p)) >= 1
       /\ Consumed(p, b.p) >= 0 /\ (b.ok => Len(b.v) < Consumed(p, b.p))
       /\ Consumed(p, c.p) >= 0 /\ (c.ok => Len(c.v.methods) < Consumed(p, c.p))
       /\ Consumed(p, f.p) >= 0 /\ (f.ok => Len(f.v.params) < Consumed(p, f.p))
       /\ Consumed(p, a.p) >= 0 /\ (a.ok => Len(a.v.arguments) < Consumed(p, a.p))

\* C29: Parser::parse terminates on every finite token sequence, well-formed
\* or not: every call of declaration that returns Some has consumed at least
\* one token, and the loops of synchronise, block, class_declaration, the
\* parameter list and the argument list each consume a token per iteration
\* or stop.  parse has returned at most one result per token, and from every
\* point of the sequence the parser makes progress.
C29_ParseTerminates ==
    (program.family = "damaged" /\ phase = "parsed") =>
        /\ Len(lox.results) <= Len(lox.tokens)
        /\ ~self("declaration", <<<<>>>>).some
        /\ \A n \in DOMAIN lox.tokens : Progress(SubSeq(lox.tokens, n, Len(lox.tokens)))

\* the whole text: the class is parsed, with its method, its parameters and
\* the call in its body, and the block with the unclosed grouping is an error
C29_Witness ==
    /\ program.family = "damaged" /\ phase = "parsed"
    /\ program.keep = Len(Tokens(DamagedText)) /\ program.drop = 0 /\ program.eof
    /\ Len(lox.results) = 2
    /\ lox.results[1].ok /\ lox.results[1].v.k = "Class"
    /\ Len(lox.results[1].v.methods[1].params) = 2
    /\ ~lox.results[2].ok

====
